---- MODULE Spec2Model ----
(***************************************************************************)
(* The query engine of the rune compiler (crates/rune/src/query/query.rs): *)
(* the meta cache, the indexed map, the build queue and the import walker. *)
(* An item is the sequence of its components, the empty sequence is        *)
(* ItemId::ROOT.  A ModId is an index into the pool's module table.        *)
(***************************************************************************)
EXTENDS Integers, Sequences, FiniteSets, TLC

(* ------------------------------ bounds --------------------------------- *)

\* How many declarations the indexer may record (ids handed out by gen).
MaxIndexed == 3

\* How many modules besides the root the indexer may insert.
MaxMods == 1

\* How many imports the indexer may declare where it declares only imports
\* and modules.
MaxImports == 2

\* The longest item a declaration is indexed under.
MaxKeyLen == 2

\* The permitted number of import recursions when constructing a path.
IMPORT_RECURSION_LIMIT == 128

(* ------------------------------ items ---------------------------------- *)

\* Hash::EMPTY, the parameter hash of every Meta the query engine builds.
HashEMPTY == "EMPTY"

\* ItemId::ROOT, the empty path.
ROOT == << >>

IsPrefix(p, q) == Len(p) <= Len(q) /\ SubSeq(q, 1, Len(p)) = p

\* Item::is_super_of(other, n): self is other, or other with up to n
\* trailing components removed.
is_super_of(self, other, n) ==
    \E k \in 0..n : k <= Len(other) /\ self = SubSeq(other, 1, Len(other) - k)

\* Length of the longest common prefix of two items.
RECURSIVE CommonLen(_, _, _)
CommonLen(a, b, k) ==
    IF k < Len(a) /\ k < Len(b) /\ a[k + 1] = b[k + 1]
    THEN CommonLen(a, b, k + 1)
    ELSE k

\* Item::ancestry(other): the common prefix of self and other, and what
\* remains of other after it.
ancestry(self, other) ==
    LET n == CommonLen(self, other, 0)
    IN  [common |-> SubSeq(other, 1, n), tree |-> SubSeq(other, n + 1, Len(other))]

(* ---------------------------- visibility ------------------------------- *)

\* Visibility::is_visible: may `from` see the module `to`.
is_visible(visibility, from, to) ==
    CASE visibility \in {"Inherited", "SelfValue"} -> is_super_of(from, to, 1)
      [] visibility = "Super" -> is_super_of(from, to, 2)
      [] OTHER -> TRUE

\* Visibility::is_visible_inside: may `from` see an item declared in `to`.
is_visible_inside(visibility, from, to) ==
    CASE visibility \in {"Inherited", "SelfValue"} -> from = to
      [] visibility = "Super" -> is_super_of(from, to, 1)
      [] OTHER -> TRUE

\* Visibility::is_public
is_public_vis(visibility) == visibility = "Public"

(* ------------------------------- state --------------------------------- *)

VARIABLES
    meta,       \* QueryInner.meta: the (item, parameters) -> Meta entries
    queue,      \* QueryInner.queue: the build queue
    indexed,    \* QueryInner.indexed: item -> entries indexed under it
    items,      \* QueryInner.items: id -> ItemMeta
    names,      \* QueryInner.names: all available names
    pool_items, \* Pool: the interned items, in the order of their ItemId
    modules,    \* Pool: the module table, ModId -> ModMeta
    next_id,    \* Gen: the next identifier gen.next() hands out
    imp,        \* the locals of the import() call in progress, if any
    res,        \* what the last operation was, and what it returned
    functions,  \* Functions.functions of the virtual machine: Hash -> Handler
    stack       \* the value stack of the Vm the handlers are called with

vars == <<meta, queue, indexed, items, names, pool_items, modules, next_id, imp, res,
          functions, stack>>

\* The part of the state the query operations thread through their calls;
\* unit takes the Metas a call hands to the UnitBuilder, debug_assertions
\* tells whether the build compiles debug_assert! in.
QState(debug) == [meta |-> meta, queue |-> queue, indexed |-> indexed,
                  pool_items |-> pool_items, next_id |-> next_id,
                  unit |-> << >>, debug_assertions |-> debug]

(* ------------------------------ records -------------------------------- *)

\* meta::Import of an entry that is not an import.
NoImport == [location |-> 0, target |-> ROOT, module |-> 0]

\* indexing::Entry { item_meta, indexed }
NoEntry == [item_meta |-> [id |-> 0, item |-> ROOT, module |-> 0, visibility |-> "Public"],
            indexed |-> [kind |-> "None", wildcard |-> FALSE, import |-> NoImport, enum_id |-> 0]]

\* meta::Meta
NoMeta == [item_meta |-> NoEntry.item_meta, kind |-> "None", parameters |-> HashEMPTY,
           hash |-> ROOT, import |-> NoImport, enum_hash |-> ROOT, source |-> FALSE]

\* Used::default()
UsedDefault == "Used"

(* ------------------------------- pool ---------------------------------- *)

\* Pool::alloc_item: intern the item; a new item gets the next ItemId.  The
\* order of the ItemIds is observed only through the iteration over the keys
\* of the indexed map, so the items longer than any key are left out.
pool_alloc(pool, item) ==
    IF Len(item) > MaxKeyLen \/ \E i \in 1..Len(pool) : pool[i] = item
    THEN pool
    ELSE Append(pool, item)

\* Pool::alloc_item on the state the query operations thread.
alloc_item(q, item) == [q EXCEPT !.pool_items = pool_alloc(@, item)]

\* The ItemId of an interned item: its position in the pool.
ItemIdOf(pool, item) == CHOOSE i \in 1..Len(pool) : pool[i] = item

\* Pool::module_item
module_item(mod) == modules[mod].item

\* Pool::module_by_item
HasModule(item) == \E m \in 1..Len(modules) : modules[m].item = item
module_by_item(item) == modules[CHOOSE m \in 1..Len(modules) : modules[m].item = item]

\* ModMeta::is_public: the module and all its ancestors are public.
RECURSIVE mod_is_public(_)
mod_is_public(mod) ==
    /\ is_public_vis(modules[mod].visibility)
    /\ (modules[mod].parent # 0 => mod_is_public(modules[mod].parent))

\* ItemMeta::is_public
item_meta_is_public(item_meta) ==
    is_public_vis(item_meta.visibility) /\ mod_is_public(item_meta.module)

(* ---------------------------- meta cache ------------------------------- *)

\* HashMap::get on QueryInner.meta
HasMeta(m, item, hash) ==
    \E e \in m : e.item_meta.item = item /\ e.parameters = hash
GetMeta(m, item, hash) ==
    CHOOSE e \in m : e.item_meta.item = item /\ e.parameters = hash

\* insert_meta with HashMap::insert in place of the entry API: the Meta of an
\* occupied key is replaced.
insert_meta_overwrite(q, m) ==
    [q |-> [q EXCEPT !.meta = {e \in @ : ~(e.item_meta.item = m.item_meta.item
                                            /\ e.parameters = m.parameters)}
                              \cup {m}],
     kind |-> "Ok"]

\* Query::insert_meta: an occupied key is a MetaConflict, a vacant one is
\* filled.
insert_meta(q, m) ==
    IF HasMeta(q.meta, m.item_meta.item, m.parameters)
    THEN [q |-> q, kind |-> "MetaConflict"]
    ELSE [q |-> [q EXCEPT !.meta = @ \cup {m}], kind |-> "Ok"]

(* --------------------------- remove_indexed ---------------------------- *)

IsImport(entry) == entry.indexed.kind = "Import"
IsWildcard(entry) == IsImport(entry) /\ entry.indexed.wildcard

\* A scan that keeps its first candidate when that one is a wildcard import.
RECURSIVE remove_indexed_scan_keep(_, _, _)
remove_indexed_scan_keep(entries, cur, i) ==
    IF i > Len(entries)
    THEN IF IsWildcard(cur)
         THEN [kind |-> "AmbiguousItem", some |-> FALSE, entry |-> NoEntry]
         ELSE [kind |-> "Ok", some |-> TRUE, entry |-> cur]
    ELSE IF IsImport(cur) /\ IsImport(entries[i])
            /\ (cur.indexed.wildcard \/ entries[i].indexed.wildcard)
    THEN remove_indexed_scan_keep(entries, cur, i + 1)
    ELSE [kind |-> "AmbiguousItem", some |-> FALSE, entry |-> NoEntry]

\* A scan that lets a concrete item win over the imports indexed beside it.
RECURSIVE remove_indexed_scan_concrete(_, _, _)
remove_indexed_scan_concrete(entries, cur, i) ==
    IF i > Len(entries)
    THEN IF IsWildcard(cur)
         THEN [kind |-> "AmbiguousItem", some |-> FALSE, entry |-> NoEntry]
         ELSE [kind |-> "Ok", some |-> TRUE, entry |-> cur]
    ELSE IF IsImport(cur) /\ (cur.indexed.wildcard \/ ~IsImport(entries[i]))
    THEN remove_indexed_scan_concrete(entries, entries[i], i + 1)
    ELSE IF IsImport(entries[i])
    THEN remove_indexed_scan_concrete(entries, cur, i + 1)
    ELSE [kind |-> "AmbiguousItem", some |-> FALSE, entry |-> NoEntry]

\* The loop of remove_indexed over the entries after the first: `cur` is the
\* candidate, entries[i] the next one to compare it with.
RECURSIVE remove_indexed_scan(_, _, _)
remove_indexed_scan(entries, cur, i) ==
    IF i > Len(entries)
    THEN IF IsWildcard(cur)
         THEN [kind |-> "AmbiguousItem", some |-> FALSE, entry |-> NoEntry]
         ELSE [kind |-> "Ok", some |-> TRUE, entry |-> cur]
    ELSE LET oth == entries[i]
         IN  IF IsImport(cur) /\ IsImport(oth) /\ cur.indexed.wildcard
             THEN remove_indexed_scan(entries, oth, i + 1)
             ELSE IF IsImport(cur) /\ IsImport(oth) /\ oth.indexed.wildcard
             THEN remove_indexed_scan(entries, cur, i + 1)
             ELSE [kind |-> "AmbiguousItem", some |-> FALSE, entry |-> NoEntry]

\* Query::remove_indexed: the entries of the item leave the indexed map
\* whatever the outcome.
remove_indexed(q, item) ==
    IF item \notin DOMAIN q.indexed
    THEN [q |-> q, kind |-> "Ok", some |-> FALSE, entry |-> NoEntry]
    ELSE LET select(entries) ==
                 IF Len(entries) = 0
                 THEN [kind |-> "Ok", some |-> FALSE, entry |-> NoEntry]
                 ELSE IF Len(entries) = 1
                 THEN [kind |-> "Ok", some |-> TRUE, entry |-> entries[1]]
                 ELSE remove_indexed_scan(entries, entries[1], 2)
             removed(q1, r) ==
                 [q |-> q1, kind |-> r.kind, some |-> r.some, entry |-> r.entry]
         IN  removed([q EXCEPT !.indexed = [k \in (DOMAIN @) \ {item} |-> @[k]]],
                     select(q.indexed[item]))

(* ------------------------ building an indexed entry -------------------- *)

\* A queue that takes new entries at its front.
queue_push_front(qu, build_entry) == <<build_entry>> \o qu

\* VecDeque::push_back
queue_push(qu, build_entry) == Append(qu, build_entry)

\* VecDeque::pop_front
pop_front(qu) ==
    IF qu = << >>
    THEN [some |-> FALSE, entry |-> << >>, queue |-> qu]
    ELSE [some |-> TRUE, entry |-> Head(qu), queue |-> Tail(qu)]

\* A push that marks every build entry as used.
push_back_used(q, build_entry) ==
    [q EXCEPT !.queue = queue_push(@, [build_entry EXCEPT !.used = "Used"])]

\* self.inner.queue.push_back on the state the query operations thread.
push_back(q, build_entry) == [q EXCEPT !.queue = queue_push(@, build_entry)]

BuildEntry(item_meta, build, used) ==
    [item_meta |-> item_meta, build |-> build, used |-> used]

\* Query::item_for: the ItemMeta recorded for an opaque id.
HasItemFor(id) == id \in DOMAIN items
item_for(id) == items[id]

\* The Meta that build_indexed_entry returns for a kind.
BuiltMeta(item_meta, kind, import, enum_hash) ==
    [item_meta |-> item_meta, kind |-> kind, parameters |-> HashEMPTY,
     hash |-> item_meta.item, import |-> import, enum_hash |-> enum_hash,
     source |-> TRUE]

RECURSIVE build_indexed_entry(_, _, _)
RECURSIVE query_indexed_meta(_, _, _)
RECURSIVE query_meta(_, _, _)

\* Query::build_indexed_entry: the Meta of the entry, and the build entry
\* its kind asks for.
build_indexed_entry(q, entry, used) ==
    LET item_meta == entry.item_meta
        ix == entry.indexed
        ok(q1, kind) == [q |-> q1, kind |-> "Ok",
                         meta |-> BuiltMeta(item_meta, kind, NoImport, ROOT)]
    IN  CASE ix.kind \in {"Enum", "Struct", "Module"} ->
                ok(q, ix.kind)
          [] ix.kind = "Variant" ->
                IF ~HasItemFor(ix.enum_id)
                THEN [q |-> q, kind |-> "MissingId", meta |-> NoMeta]
                ELSE LET enum_ == item_for(ix.enum_id)
                         queried(r) ==
                             IF r.kind # "Ok"
                             THEN [q |-> r.q, kind |-> r.kind, meta |-> NoMeta]
                             ELSE IF ~r.some
                             THEN [q |-> r.q, kind |-> "MissingEnum", meta |-> NoMeta]
                             ELSE [q |-> r.q, kind |-> "Ok",
                                   meta |-> BuiltMeta(item_meta, "Variant", NoImport,
                                                      r.meta.hash)]
                     IN  queried(query_meta(q, enum_.item, UsedDefault))
          [] ix.kind \in {"Function", "InstanceFunction", "Closure", "AsyncBlock"} ->
                ok(push_back(q, BuildEntry(item_meta, ix.kind, used)),
                   IF ix.kind = "InstanceFunction" THEN "AssociatedFunction"
                   ELSE ix.kind)
          [] ix.kind = "Const" ->
                ok(IF used = "Unused"
                   THEN push_back(q, BuildEntry(item_meta, "Unused", used))
                   ELSE q, "Const")
          [] ix.kind = "ConstFn" ->
                LET q1 == [q EXCEPT !.next_id = @ + 1]
                IN  ok(IF used = "Unused"
                       THEN push_back(q1, BuildEntry(item_meta, "Unused", used))
                       ELSE q1, "ConstFn")
          [] ix.kind = "Import" ->
                [q |-> IF ~ix.wildcard
                       THEN push_back(q, BuildEntry(item_meta, "Import", used))
                       ELSE q,
                 kind |-> "Ok",
                 meta |-> BuiltMeta(item_meta, "Import", ix.import, ROOT)]

\* Query::query_indexed_meta: build the Meta of the item from its indexed
\* entry and cache it.
query_indexed_meta(q, item, used) ==
    LET none(q1, kind) == [q |-> q1, kind |-> kind, some |-> FALSE, meta |-> NoMeta]
        inserted(i, m) ==
            IF i.kind # "Ok"
            THEN none(i.q, i.kind)
            ELSE [q |-> i.q, kind |-> "Ok", some |-> TRUE, meta |-> m]
        built(b) ==
            IF b.kind # "Ok"
            THEN none(b.q, b.kind)
            ELSE inserted(insert_meta(b.q, b.meta), b.meta)
        removed(r) ==
            IF r.kind # "Ok"
            THEN none(r.q, r.kind)
            ELSE IF ~r.some
            THEN none(r.q, "Ok")
            ELSE built(build_indexed_entry(r.q, r.entry, used))
    IN  removed(remove_indexed(q, item))

\* Query::query_meta: the cached Meta of the item, else the one built from
\* its indexed entry.  The debug_assert! of the cached branch panics in a
\* build with debug assertions when the item still has indexed entries.
query_meta(q, item, used) ==
    IF HasMeta(q.meta, item, HashEMPTY)
    THEN IF q.debug_assertions /\ item \in DOMAIN q.indexed
         THEN [q |-> q, kind |-> "Panic", some |-> FALSE, meta |-> NoMeta]
         ELSE [q |-> q, kind |-> "Ok", some |-> TRUE,
               meta |-> GetMeta(q.meta, item, HashEMPTY)]
    ELSE query_indexed_meta(q, item, used)

\* UnitBuilder::insert_meta: the unit takes the Meta.
unit_insert_meta(q, m) == [q EXCEPT !.unit = Append(@, m)]

\* An import_indexed that builds every entry as used.
import_indexed_default(q, entry, used) ==
    LET built(b) ==
            IF b.kind # "Ok"
            THEN [q |-> b.q, kind |-> b.kind]
            ELSE insert_meta(unit_insert_meta(b.q, b.meta), b.meta)
    IN  built(build_indexed_entry(q, entry, UsedDefault))

\* Query::import_indexed: build and cache an entry met while walking an
\* import path.
import_indexed(q, entry, used) ==
    LET built(b) ==
            IF b.kind # "Ok"
            THEN [q |-> b.q, kind |-> b.kind]
            ELSE insert_meta(unit_insert_meta(b.q, b.meta), b.meta)
    IN  built(build_indexed_entry(q, entry, used))

(* ---------------------------- visibility check ------------------------- *)

\* into_chain: the locations of the import steps followed so far.
into_chain(chain) == [i \in 1..Len(chain) |-> chain[i].location]

\* A loop that reports the module nearest to the item that fails, not the
\* first one below the common ancestor.
RECURSIVE check_access_loop_last(_, _, _, _, _)
check_access_loop_last(q, common, tree, i, chain) ==
    IF i > Len(tree)
    THEN [q |-> q, kind |-> "Ok", chain |-> << >>]
    ELSE LET current_module == common \o SubSeq(tree, 1, i)
             q1 == alloc_item(q, current_module)
             here(rest) ==
                 IF rest.kind # "Ok"
                 THEN rest
                 ELSE IF ~HasModule(current_module)
                 THEN [q |-> rest.q, kind |-> "MissingMod", chain |-> << >>]
                 ELSE IF ~is_visible(module_by_item(current_module).visibility,
                                     common, current_module)
                 THEN [q |-> rest.q, kind |-> "NotVisibleMod",
                       chain |-> into_chain(chain)]
                 ELSE rest
         IN  here(check_access_loop_last(q1, common, tree, i + 1, chain))

\* The loop of check_access_to over the modules from the common ancestor
\* down to the module of the item; tree[i] is the next component.
RECURSIVE check_access_loop(_, _, _, _, _)
check_access_loop(q, common, tree, i, chain) ==
    IF i > Len(tree)
    THEN [q |-> q, kind |-> "Ok", chain |-> << >>]
    ELSE LET current_module == common \o SubSeq(tree, 1, i)
             q1 == alloc_item(q, current_module)
         IN  IF ~HasModule(current_module)
             THEN [q |-> q1, kind |-> "MissingMod", chain |-> << >>]
             ELSE IF ~is_visible(module_by_item(current_module).visibility,
                                 common, current_module)
             THEN [q |-> q1, kind |-> "NotVisibleMod", chain |-> into_chain(chain)]
             ELSE check_access_loop(q1, common, tree, i + 1, chain)

\* Query::check_access_to: is the item, declared in `module` with
\* `visibility`, accessible from the module `from`.
check_access_to(q, from, item, module, visibility, chain) ==
    LET checked(r, common) ==
            IF r.kind # "Ok"
            THEN r
            ELSE IF ~is_visible_inside(visibility, common, module_item(module))
            THEN [q |-> r.q, kind |-> "NotVisible", chain |-> into_chain(chain)]
            ELSE r
        walk(a) == checked(check_access_loop(q, a.common, a.tree, 1, chain), a.common)
    IN  walk(ancestry(module_item(from), module_item(module)))

(* ------------------------------- import -------------------------------- *)

\* Query::import_step: the import registered under the item, if it is one.
import_step(q, module, item, used, path) ==
    IF HasMeta(q.meta, item, HashEMPTY)
    THEN LET m == GetMeta(q.meta, item, HashEMPTY)
         IN  [q |-> q, kind |-> "Ok", some |-> m.kind = "Import", import |-> m.import,
              chain |-> << >>]
    ELSE LET none(q1, kind, chain) ==
                 [q |-> q1, kind |-> kind, some |-> FALSE, import |-> NoImport,
                  chain |-> chain]
             built(i) == none(i.q, i.kind, << >>)
             inserted(i, import) ==
                 [q |-> i.q, kind |-> i.kind, some |-> i.kind = "Ok",
                  import |-> IF i.kind = "Ok" THEN import ELSE NoImport,
                  chain |-> << >>]
             import_meta(entry) ==
                 [BuiltMeta(entry.item_meta, "Import", entry.indexed.import, ROOT)
                  EXCEPT !.source = FALSE]
             checked(c, entry) ==
                 IF c.kind # "Ok"
                 THEN none(c.q, c.kind, c.chain)
                 ELSE IF ~IsImport(entry)
                 THEN built(import_indexed(c.q, entry, used))
                 ELSE inserted(insert_meta(c.q, import_meta(entry)),
                               entry.indexed.import)
             removed(r) ==
                 IF r.kind # "Ok" \/ ~r.some
                 THEN none(r.q, r.kind, << >>)
                 ELSE checked(check_access_to(r.q, module, item,
                                              r.entry.item_meta.module,
                                              r.entry.item_meta.visibility, path),
                              r.entry)
         IN  removed(remove_indexed(q, item))

\* The inner loop of import: walk the prefixes of the item, shortest first,
\* until one of them is an import; k is the length of the next prefix.
RECURSIVE import_walk(_, _, _, _, _, _)
import_walk(q, module, item, k, used, path) ==
    IF k > Len(item)
    THEN [q |-> q, kind |-> "Ok", some |-> FALSE, import |-> NoImport, k |-> k,
          chain |-> << >>]
    ELSE LET stepped(s) ==
                 IF s.kind # "Ok" \/ s.some
                 THEN [q |-> s.q, kind |-> s.kind, some |-> s.some,
                       import |-> s.import, k |-> k, chain |-> s.chain]
                 ELSE import_walk(s.q, module, item, k + 1, used, path)
             step(cur) == stepped(import_step(alloc_item(q, cur), module, cur,
                                              used, path))
         IN  step(SubSeq(item, 1, k))

\* A path that keeps only the step pushed last.
push_step_last(path, import) ==
    <<[location |-> import.location, item |-> import.target]>>

\* path.push(ImportStep { location, item: target }) for a followed import.
push_step(path, import) ==
    Append(path, [location |-> import.location, item |-> import.target])

\* A rewrite that drops the components after the prefix.
rewrite_target(target, item, k) == target

\* The item rewritten by an import under its prefix of length k: the target
\* of the import joined with the components after the prefix.
rewrite(target, item, k) == target \o SubSeq(item, k + 1, Len(item))

\* A limit check that lets one more iteration through.
over_limit_late(count) == count > IMPORT_RECURSION_LIMIT + 1

\* The limit check of the outer loop of import.
over_limit(count) == count > IMPORT_RECURSION_LIMIT

\* The locals of a running import(): the loop state of its outer loop.
\* `from` and `start` are the arguments of the call, `trace` records the item,
\* the module and the length of the rewritten prefix of every iteration that
\* rewrote.
IdleImport ==
    [active |-> FALSE, from |-> 0, start |-> ROOT, used |-> "Used", module |-> 0,
     item |-> ROOT, visited |-> {}, path |-> << >>, any_matched |-> FALSE,
     count |-> 0, trace |-> << >>]

\* What import() returns when its loop ends in the state `im`.
ImportResult(im, kind, some, chain) ==
    [op |-> "import", kind |-> kind, from |-> im.from, start |-> im.start,
     used |-> im.used, some |-> some, item |-> im.item, path |-> im.path,
     count |-> im.count, trace |-> im.trace, chain |-> chain]

\* One iteration of the outer loop of import: rewrite the item by the first
\* import among its prefixes, or end the call.  `done` tells that the call
\* returned, with `result`.
import_iter(q, im) ==
    IF over_limit(im.count)
    THEN [q |-> q, done |-> TRUE, im |-> im,
          result |-> ImportResult(im, "ImportRecursionLimit", FALSE, << >>)]
    ELSE LET im1 == [im EXCEPT !.count = @ + 1]
             followed(q1, im2, import, k) ==
                 IF im.item \in im.visited
                 THEN [q |-> q1, done |-> TRUE, im |-> im2,
                       result |-> ImportResult(im2, "ImportCycle", FALSE, << >>)]
                 ELSE [q |-> q1, done |-> FALSE,
                       im |-> [im2 EXCEPT
                                 !.visited = @ \cup {im.item},
                                 !.module = import.module,
                                 !.item = rewrite(import.target, im.item, k),
                                 !.any_matched = TRUE],
                       result |-> ImportResult(im2, "Pending", FALSE, << >>)]
             walked(w) ==
                 IF w.kind # "Ok"
                 THEN [q |-> w.q, done |-> TRUE, im |-> im1,
                       result |-> ImportResult(im1, w.kind, FALSE, w.chain)]
                 ELSE IF ~w.some
                 THEN [q |-> IF im.any_matched THEN alloc_item(w.q, im.item)
                             ELSE w.q,
                       done |-> TRUE, im |-> im1,
                       result |-> ImportResult(im1, "Ok", im.any_matched, << >>)]
                 ELSE followed(alloc_item(w.q, im.item),
                               [im1 EXCEPT
                                  !.path = push_step(@, w.import),
                                  !.trace = Append(@, [item |-> im.item,
                                                       module |-> im.module,
                                                       k |-> w.k])],
                               w.import, w.k)
         IN  walked(import_walk(q, im.module, im.item, 1, im.used, im.path))

(* --------------------------- unused entries ---------------------------- *)

\* The keys of the indexed map in the order the BTreeMap iterates them: by
\* ItemId, which is the order in which the pool interned the items.
RECURSIVE sorted_keys(_, _)
sorted_keys(pool, keys) ==
    IF keys = {}
    THEN << >>
    ELSE LET first == CHOOSE k \in keys :
                          \A o \in keys : ItemIdOf(pool, k) <= ItemIdOf(pool, o)
         IN  <<first>> \o sorted_keys(pool, keys \ {first})

\* The items of all indexed entries, one per entry, as queue_unused_entries
\* collects them.
RECURSIVE unused_items(_, _, _)
unused_items(ix, keys, i) ==
    IF i > Len(keys)
    THEN << >>
    ELSE [j \in 1..Len(ix[keys[i]]) |-> keys[i]] \o unused_items(ix, keys, i + 1)

\* A loop that builds the collected items as used.
RECURSIVE queue_unused_loop_used(_, _, _)
queue_unused_loop_used(q, unused, i) ==
    IF i > Len(unused)
    THEN [q |-> q, kind |-> "Ok", value |-> TRUE]
    ELSE LET queried(r) ==
                 IF r.kind # "Ok"
                 THEN [q |-> r.q, kind |-> r.kind, value |-> FALSE]
                 ELSE queue_unused_loop_used(r.q, unused, i + 1)
         IN  queried(query_indexed_meta(q, unused[i], "Used"))

\* The loop of queue_unused_entries: build every collected item as unused,
\* stop at the first error.
RECURSIVE queue_unused_loop(_, _, _)
queue_unused_loop(q, unused, i) ==
    IF i > Len(unused)
    THEN [q |-> q, kind |-> "Ok", value |-> TRUE]
    ELSE LET queried(r) ==
                 IF r.kind # "Ok"
                 THEN [q |-> r.q, kind |-> r.kind, value |-> FALSE]
                 ELSE queue_unused_loop(r.q, unused, i + 1)
         IN  queried(query_indexed_meta(q, unused[i], "Unused"))

\* A drain that builds only the first of the collected items.
queue_unused_entries_first(q) ==
    LET collected(unused) ==
            IF unused = << >>
            THEN [q |-> q, kind |-> "Ok", value |-> FALSE]
            ELSE queue_unused_loop(q, SubSeq(unused, 1, 1), 1)
    IN  collected(unused_items(q.indexed,
                               sorted_keys(q.pool_items, DOMAIN q.indexed), 1))

\* Query::queue_unused_entries
queue_unused_entries(q) ==
    LET collected(unused) ==
            IF unused = << >>
            THEN [q |-> q, kind |-> "Ok", value |-> FALSE]
            ELSE queue_unused_loop(q, unused, 1)
    IN  collected(unused_items(q.indexed,
                               sorted_keys(q.pool_items, DOMAIN q.indexed), 1))

(* ------------------------------ indexing ------------------------------- *)

\* Query::insert_name
insert_name(ns, item) == ns \cup {item}

\* An index that replaces the entries of the item by the new one.
index_overwrite(ix, entry) ==
    [k \in DOMAIN ix \cup {entry.item_meta.item} |->
        IF k = entry.item_meta.item THEN <<entry>> ELSE ix[k]]

\* Query::index: append the entry to the entries of its item.
index(ix, entry) ==
    LET item == entry.item_meta.item
    IN  IF item \in DOMAIN ix
        THEN [ix EXCEPT ![item] = Append(@, entry)]
        ELSE ix @@ (item :> <<entry>>)

\* Query::insert_new_item_with: record the ItemMeta under its id.
insert_new_item_with(its, item_meta) ==
    IF item_meta.id \in DOMAIN its
    THEN [its EXCEPT ![item_meta.id] = item_meta]
    ELSE its @@ (item_meta.id :> item_meta)

\* Pool::alloc_module: a module is identified by its item.
alloc_module(mods, mod_meta) ==
    IF \E m \in 1..Len(mods) : mods[m].item = mod_meta.item
    THEN mods
    ELSE Append(mods, mod_meta)

(* ------------------------------- actions ------------------------------- *)

\* No alias given to insert_import.
NoAlias == ""

ModIds == 1..Len(modules)

\* The program has not panicked and no import() call is in progress.
Idle == res.kind # "Panic" /\ ~imp.active

Init ==
    /\ meta = {}
    /\ queue = << >>
    /\ indexed = << >>
    /\ items = << >>
    /\ names = {}
    /\ pool_items = <<ROOT>>
    /\ modules = << >>
    /\ next_id = 1
    /\ imp = IdleImport
    /\ res = [op |-> "new", kind |-> "Ok"]
    /\ functions = << >>
    /\ stack = << >>

\* Query::insert_root_mod
InsertRootMod ==
    /\ Idle
    /\ modules = << >>
    /\ modules' = alloc_module(modules, [item |-> ROOT, visibility |-> "Public",
                                         parent |-> 0])
    /\ names' = insert_name(names, ROOT)
    /\ res' = [op |-> "insert_root_mod", kind |-> "Ok"]
    /\ UNCHANGED <<meta, queue, indexed, items, pool_items, next_id, imp,
                   functions, stack>>

\* Query::insert_mod: a module `name` declared in the module `parent`.
InsertMod(parent, name, visibility) ==
    /\ Idle
    /\ parent \in ModIds
    /\ Len(modules) <= MaxMods
    /\ next_id <= MaxIndexed
    /\ LET item == module_item(parent) \o <<name>>
           item_meta == [id |-> next_id, item |-> item, module |-> parent,
                         visibility |-> visibility]
           entry == [item_meta |-> item_meta,
                     indexed |-> [NoEntry.indexed EXCEPT !.kind = "Module"]]
       IN  /\ next_id' = next_id + 1
           /\ pool_items' = pool_alloc(pool_items, item)
           /\ items' = insert_new_item_with(items, item_meta)
           /\ modules' = alloc_module(modules, [item |-> item, visibility |-> visibility,
                                                parent |-> parent])
           /\ queue' = queue_push(queue, BuildEntry(item_meta, "Query", "Used"))
           /\ names' = insert_name(names, item)
           /\ indexed' = index(indexed, entry)
           /\ res' = [op |-> "insert_mod", kind |-> "Ok", item |-> item]
    /\ UNCHANGED <<meta, imp,
                   functions, stack>>

\* The indexer records a declaration `name` of the module: insert_new_item
\* for its ItemMeta, then index().
IndexItem(module, name, kind, visibility) ==
    /\ Idle
    /\ module \in ModIds
    /\ next_id <= MaxIndexed
    /\ LET item == module_item(module) \o <<name>>
           item_meta == [id |-> next_id, item |-> item, module |-> module,
                         visibility |-> visibility]
           entry == [item_meta |-> item_meta,
                     indexed |-> [NoEntry.indexed EXCEPT !.kind = kind]]
       IN  /\ next_id' = next_id + 1
           /\ pool_items' = pool_alloc(pool_items, item)
           /\ items' = insert_new_item_with(items, item_meta)
           /\ names' = insert_name(names, item)
           /\ indexed' = index(indexed, entry)
           /\ res' = [op |-> "index", kind |-> "Ok", item |-> item]
    /\ UNCHANGED <<meta, queue, modules, imp,
                   functions, stack>>

\* An insert_import that re-exports every import, public or not.
InsertImportReExport(module, visibility, at, target, alias, wildcard) ==
    /\ Idle
    /\ module \in ModIds
    /\ next_id <= MaxIndexed
    /\ IF alias = NoAlias /\ target = ROOT
       THEN /\ res' = [op |-> "insert_import", kind |-> "LastUseComponent",
                       call |-> [module |-> module, visibility |-> visibility,
                                 at |-> at, target |-> target, alias |-> alias,
                                 wildcard |-> wildcard]]
            /\ UNCHANGED <<meta, queue, indexed, items, names, pool_items, modules,
                           next_id, imp,
                           functions, stack>>
       ELSE LET last == IF alias # NoAlias THEN alias ELSE target[Len(target)]
                item == at \o <<last>>
                item_meta == [id |-> next_id, item |-> item, module |-> module,
                              visibility |-> visibility]
                entry == [item_meta |-> item_meta,
                          indexed |-> [kind |-> "Import", wildcard |-> wildcard,
                                       import |-> [location |-> next_id,
                                                   target |-> target,
                                                   module |-> module],
                                       enum_id |-> 0]]
            IN  /\ next_id' = next_id + 1
                /\ pool_items' = pool_alloc(pool_alloc(pool_items, item), target)
                /\ items' = insert_new_item_with(items, item_meta)
                /\ queue' = queue_push(queue, BuildEntry(item_meta, "ReExport", "Used"))
                /\ names' = insert_name(names, item)
                /\ indexed' = index(indexed, entry)
                /\ res' = [op |-> "insert_import", kind |-> "Ok", item |-> item,
                           call |-> [module |-> module, visibility |-> visibility,
                                     at |-> at, target |-> target, alias |-> alias,
                                     wildcard |-> wildcard]]
                /\ UNCHANGED <<meta, modules, imp,
                               functions, stack>>

\* Query::insert_import: an import declared at the item `at` of the module.
\* res also keeps the arguments of the call.
InsertImport(module, visibility, at, target, alias, wildcard) ==
    /\ Idle
    /\ module \in ModIds
    /\ next_id <= MaxIndexed
    /\ IF alias = NoAlias /\ target = ROOT
       THEN /\ res' = [op |-> "insert_import", kind |-> "LastUseComponent",
                       call |-> [module |-> module, visibility |-> visibility,
                                 at |-> at, target |-> target, alias |-> alias,
                                 wildcard |-> wildcard]]
            /\ UNCHANGED <<meta, queue, indexed, items, names, pool_items, modules,
                           next_id, imp,
                           functions, stack>>
       ELSE LET last == IF alias # NoAlias THEN alias ELSE target[Len(target)]
                item == at \o <<last>>
                item_meta == [id |-> next_id, item |-> item, module |-> module,
                              visibility |-> visibility]
                entry == [item_meta |-> item_meta,
                          indexed |-> [kind |-> "Import", wildcard |-> wildcard,
                                       import |-> [location |-> next_id,
                                                   target |-> target,
                                                   module |-> module],
                                       enum_id |-> 0]]
            IN  /\ next_id' = next_id + 1
                /\ pool_items' = pool_alloc(pool_alloc(pool_items, item), target)
                /\ items' = insert_new_item_with(items, item_meta)
                /\ queue' = IF item_meta_is_public(item_meta)
                            THEN queue_push(queue, BuildEntry(item_meta, "ReExport", "Used"))
                            ELSE queue
                /\ names' = insert_name(names, item)
                /\ indexed' = index(indexed, entry)
                /\ res' = [op |-> "insert_import", kind |-> "Ok", item |-> item,
                           call |-> [module |-> module, visibility |-> visibility,
                                     at |-> at, target |-> target, alias |-> alias,
                                     wildcard |-> wildcard]]
                /\ UNCHANGED <<meta, modules, imp,
                               functions, stack>>

\* The state after a query operation that left the state `q`.
Commit(q) ==
    /\ meta' = q.meta
    /\ queue' = q.queue
    /\ indexed' = q.indexed
    /\ pool_items' = q.pool_items
    /\ next_id' = q.next_id
    /\ UNCHANGED <<items, names, modules,
                   functions, stack>>

\* Query::insert_meta, called with the Meta `m`.
InsertMeta(m) ==
    /\ Idle
    /\ LET returned(r) ==
               /\ Commit(r.q)
               /\ res' = [op |-> "insert_meta", kind |-> r.kind, meta |-> m]
       IN  returned(insert_meta(QState(FALSE), m))
    /\ UNCHANGED imp

\* Query::query_meta.  res also keeps what the call found: whether the Meta
\* was cached, and the entries indexed under the item.
QueryMeta(item, used, debug) ==
    /\ Idle
    /\ LET returned(r) ==
               /\ Commit(r.q)
               /\ res' = [op |-> "query_meta", kind |-> r.kind, item |-> item,
                          used |-> used, some |-> r.some, meta |-> r.meta,
                          cached |-> HasMeta(meta, item, HashEMPTY),
                          entries |-> IF item \in DOMAIN indexed THEN indexed[item]
                                      ELSE << >>]
       IN  returned(query_meta(QState(debug), item, used))
    /\ UNCHANGED imp

\* Query::import is called: its locals are initialised.
ImportCall(module, item, used) ==
    /\ Idle
    /\ module \in ModIds
    /\ imp' = [IdleImport EXCEPT !.active = TRUE, !.from = module, !.start = item,
                                 !.used = used, !.module = module, !.item = item]
    /\ res' = [op |-> "import", kind |-> "Pending"]
    /\ UNCHANGED <<meta, queue, indexed, items, names, pool_items, modules, next_id,
                   functions, stack>>

\* One iteration of the outer loop of Query::import.
ImportIter(debug) ==
    /\ imp.active
    /\ LET iterated(r) ==
               /\ Commit(r.q)
               /\ imp' = IF r.done THEN IdleImport ELSE r.im
               /\ res' = IF r.done THEN r.result ELSE res
       IN  iterated(import_iter(QState(debug), imp))

\* Query::queue_unused_entries.  res also keeps the indexed map and the
\* build queue the call found.
QueueUnusedEntries(debug) ==
    /\ Idle
    /\ LET returned(r) ==
               /\ Commit(r.q)
               /\ res' = [op |-> "queue_unused_entries", kind |-> r.kind,
                          value |-> r.value, indexed |-> indexed, queue |-> queue]
       IN  returned(queue_unused_entries(QState(debug)))
    /\ UNCHANGED imp

\* Query::next_build_entry
NextBuildEntry ==
    /\ Idle
    /\ LET r == pop_front(queue)
       IN  /\ queue' = r.queue
           /\ res' = [op |-> "next_build_entry", kind |-> "Ok", some |-> r.some,
                      entry |-> r.entry]
    /\ UNCHANGED <<meta, indexed, items, names, pool_items, modules, next_id, imp,
                   functions, stack>>

(* ---------------------- the query engine of one module ----------------- *)

Useds == {"Used", "Unused"}

\* A Meta another part of the compiler inserts for the item.
ContextMeta(item, parameters) ==
    [NoMeta EXCEPT !.item_meta.item = item, !.kind = "Type",
                   !.parameters = parameters, !.hash = item]

Next ==
    \/ InsertRootMod
    \/ \E name \in {"a", "b"} : IndexItem(1, name, "Function", "Public")
    \/ \E w \in BOOLEAN : InsertImport(1, "Public", ROOT, <<"b">>, "a", w)
    \/ \E parameters \in {HashEMPTY, "P"} : InsertMeta(ContextMeta(<<"a">>, parameters))
    \/ \E item \in {<<"a">>, <<"b">>}, debug \in BOOLEAN :
            QueryMeta(item, "Used", debug)
    \/ ImportCall(1, <<"a">>, "Used")
    \/ \E debug \in BOOLEAN : ImportIter(debug)
    \/ \E debug \in BOOLEAN : QueueUnusedEntries(debug)

Spec == Init /\ [][Next]_vars

(* C1 *)

\* At most one Meta is cached per key (item, parameters).
OneMetaPerKey ==
    \A m1, m2 \in meta :
        (m1.item_meta.item = m2.item_meta.item /\ m1.parameters = m2.parameters)
            => m1 = m2

\* A step of insert_meta: an occupied key gives MetaConflict and leaves the
\* cache as it was, a vacant key is filled.
InsertMetaStep ==
    res'.op = "insert_meta" =>
        IF HasMeta(meta, res'.meta.item_meta.item, res'.meta.parameters)
        THEN res'.kind = "MetaConflict" /\ meta' = meta
        ELSE res'.kind = "Ok" /\ meta' = meta \cup {res'.meta}

\* C1: after any sequence of insert_meta, query_meta, import and
\* queue_unused_entries operations the meta cache holds at most one Meta per
\* key (item, parameters); insert_meta on an occupied key returns MetaConflict
\* and leaves the stored Meta unchanged, and no operation removes or replaces
\* a cached Meta.
C1_MetaConflictKeepsCache ==
    []OneMetaPerKey /\ [][InsertMetaStep /\ meta \subseteq meta']_vars

\* insert_meta was refused for a key the query engine had built a Meta for.
C1_Witness ==
    /\ res.op = "insert_meta"
    /\ res.kind = "MetaConflict"
    /\ \E m \in meta : m.item_meta.item = res.meta.item_meta.item /\ m.source

(* C5 *)

\* query_meta found no cached Meta and went to the entries indexed under the
\* item, which res.entries keeps.
QueriedIndexed == res.op = "query_meta" /\ ~res.cached /\ res.entries # << >>

\* The positions of the imports that are not wildcard imports.
NonWildcards(entries) ==
    {i \in 1..Len(entries) : IsImport(entries[i]) /\ ~entries[i].indexed.wildcard}

AllImports(entries) == \A i \in 1..Len(entries) : IsImport(entries[i])

\* C5: of the entries indexed under one item, when exactly one is a
\* non-wildcard import and all others are wildcard imports, remove_indexed
\* returns the non-wildcard import, in whatever order they were indexed; when
\* two or more are non-wildcard imports it returns AmbiguousItem, whatever
\* the order and whatever wildcard imports are there too.
C5_NonWildcardWins ==
    QueriedIndexed =>
        /\ (AllImports(res.entries) /\ Cardinality(NonWildcards(res.entries)) = 1) =>
              /\ res.kind = "Ok"
              /\ res.some
              /\ res.meta.kind = "Import"
              /\ \E i \in NonWildcards(res.entries) :
                    /\ res.meta.item_meta = res.entries[i].item_meta
                    /\ res.meta.import = res.entries[i].indexed.import
        /\ Cardinality(NonWildcards(res.entries)) >= 2 => res.kind = "AmbiguousItem"

\* The non-wildcard import was indexed between two wildcard imports.
C5_Witness ==
    /\ QueriedIndexed
    /\ Len(res.entries) = 3
    /\ IsWildcard(res.entries[1])
    /\ ~IsWildcard(res.entries[2])
    /\ IsWildcard(res.entries[3])
    /\ res.kind = "Ok"
    /\ res.meta.item_meta = res.entries[2].item_meta

(* C6 *)

QueryMetaStep ==
    res'.op = "query_meta" =>
        IF HasMeta(meta, res'.item, HashEMPTY)
        THEN /\ res'.kind = "Ok"
             /\ res'.some
             /\ res'.meta = GetMeta(meta, res'.item, HashEMPTY)
             /\ UNCHANGED <<queue, indexed, meta>>
        ELSE (res'.kind = "Ok" /\ res'.some) =>
             /\ res'.item \in DOMAIN indexed
             /\ res'.item \notin DOMAIN indexed'
             /\ meta' = meta \cup {res'.meta}
             /\ IsPrefix(queue, queue')
             /\ Len(queue') <= Len(queue) + 1

\* C9: query_meta is build-once: the first query_meta for an indexed item
\* builds its Meta from the indexed entry, caches it and removes the entry;
\* every later query_meta for the item returns a Meta equal to the first and
\* changes neither the build queue, the indexed map nor the meta cache.
C9_BuildOnce == [][QueryMetaStep]_vars

(* --------------------- indexing, building, draining -------------------- *)

\* The declarations the indexer may record in the root module.
BuildDecls ==
    { [name |-> "a", kind |-> "Function"],
      [name |-> "b", kind |-> "Struct"],
      [name |-> "b", kind |-> "Const"] }

NextBuild ==
    \/ InsertRootMod
    \/ InsertMod(1, "a", "Public")
    \/ \E d \in BuildDecls : IndexItem(1, d.name, d.kind, "Public")
    \/ \E w \in BOOLEAN : InsertImport(1, "Public", ROOT, <<"b">>, "a", w)
    \/ \E item \in {<<"a">>, <<"b">>}, debug \in BOOLEAN :
            QueryMeta(item, "Used", debug)
    \/ \E debug \in BOOLEAN : QueueUnusedEntries(debug)
    \/ NextBuildEntry

SpecBuild == Init /\ [][NextBuild]_vars

(* C7 *)

\* A step as it treats the build queue: next_build_entry takes the entry at
\* the front and returns it, or returns None when there is none; every other
\* step leaves the queue as it is or appends to its back.
FifoStep ==
    IF res'.op = "next_build_entry"
    THEN IF queue = << >>
         THEN ~res'.some /\ queue' = queue
         ELSE res'.some /\ res'.entry = Head(queue) /\ queue' = Tail(queue)
    ELSE IsPrefix(queue, queue')

\* C7: the build queue is FIFO: however the operations that enqueue build
\* entries (index_and_build, insert_import, building an indexed entry) are
\* interleaved with next_build_entry, the entries are returned in the order
\* in which they were enqueued, each once, and next_build_entry returns None
\* exactly when no enqueued entry remains.
C7_QueueIsFifo == [][FifoStep]_vars

\* next_build_entry returned the entry enqueued first while two entries
\* enqueued after it, by other operations, were still waiting.
C7_Witness ==
    /\ res.op = "next_build_entry"
    /\ res.some
    /\ Len(queue) = 2
    /\ res.entry.build = "Query"
    /\ queue[1].build = "ReExport"
    /\ queue[2].build = "Function"

(* C8 *)

\* queue_unused_entries returned Ok(true); res keeps the indexed map and the
\* build queue the call found.
UnusedQueued == res.op = "queue_unused_entries" /\ res.kind = "Ok" /\ res.value

\* The build entries the call appended to the queue.
Appended == SubSeq(queue, Len(res.queue) + 1, Len(queue))

\* The entry of the item the call built: the only one, or the non-wildcard
\* import among wildcard imports.
IsSelected(entries, i) ==
    \/ Len(entries) = 1
    \/ /\ AllImports(entries)
       /\ NonWildcards(entries) = {i}

\* The build entry an entry built as unused asks for, as a set of at most
\* one: its kind for a function, a closure or an async block, Unused for a
\* constant, Import for a non-wildcard import, and none for a struct, an
\* enum, a variant, a module or a wildcard import.
UnusedBuild(entry) ==
    CASE entry.indexed.kind \in {"Function", "InstanceFunction", "Closure", "AsyncBlock"} ->
            {BuildEntry(entry.item_meta, entry.indexed.kind, "Unused")}
      [] entry.indexed.kind \in {"Const", "ConstFn"} ->
            {BuildEntry(entry.item_meta, "Unused", "Unused")}
      [] IsImport(entry) /\ ~entry.indexed.wildcard ->
            {BuildEntry(entry.item_meta, "Import", "Unused")}
      [] OTHER -> {}

ImportDecls ==
    { [module |-> 1, at |-> ROOT, alias |-> "a", target |-> <<"b">>],
      [module |-> 1, at |-> ROOT, alias |-> "b", target |-> <<"a">>],
      [module |-> 1, at |-> ROOT, alias |-> "a", target |-> <<"a", "b">>],
      [module |-> 2, at |-> <<"a">>, alias |-> "b", target |-> <<"b">>] }

ImportStarts == {<<"a">>, <<"b">>, <<"a", "b">>}

\* How many imports the indexer has declared where it declares only imports
\* and modules.
ImportsDeclared == next_id - Len(modules)

NextImport ==
    \/ InsertRootMod
    \/ InsertMod(1, "a", "Public")
    \/ \E d \in ImportDecls :
            /\ ImportsDeclared < MaxImports
            /\ InsertImport(d.module, "Public", d.at, d.target, d.alias, FALSE)
    \/ \E item \in ImportStarts : ImportCall(1, item, "Used")
    \/ \E debug \in BOOLEAN : ImportIter(debug)

SpecImport == Init /\ [][NextImport]_vars

\* A call of import() has returned, and res is what it returned.
ImportReturned == res.op = "import" /\ res.kind # "Pending"

\* The import cached under the item, as a set of at most one.
ImportsAt(item) ==
    {m \in meta : m.kind = "Import" /\ m.item_meta.item = item
                  /\ m.parameters = HashEMPTY}

(* C3 *)

\* The iterations of a call are counted, and the count decides the outcome.
ImportBounded ==
    /\ imp.count <= IMPORT_RECURSION_LIMIT + 1
    /\ ImportReturned =>
        /\ res.count <= IMPORT_RECURSION_LIMIT + 1
        /\ Len(res.trace) <= res.count
        /\ res.kind = "Ok" => Len(res.trace) <= IMPORT_RECURSION_LIMIT
        /\ res.kind = "ImportRecursionLimit" =>
                /\ res.count = IMPORT_RECURSION_LIMIT + 1
                /\ Len(res.trace) = IMPORT_RECURSION_LIMIT + 1
        /\ Len(res.trace) > IMPORT_RECURSION_LIMIT =>
                res.kind \in {"ImportCycle", "ImportRecursionLimit"}

\* C3 as the code has it: import() terminates within IMPORT_RECURSION_LIMIT + 1
\* iterations of its loop, every iteration that does not return adding one
\* to the count; a call that succeeds followed at most
\* IMPORT_RECURSION_LIMIT imports; a chain of imports that does not end is
\* reported as ImportCycle when a full path repeats and as
\* ImportRecursionLimit, after IMPORT_RECURSION_LIMIT + 1 rewrites, when none
\* does.
C3_ImportTerminates ==
    /\ []ImportBounded
    /\ [][imp.active /\ imp'.active => imp'.count = imp.count + 1]_vars

\* A chain that grows without repeating a path ran into the limit.
C3_Witness ==
    /\ ImportReturned
    /\ res.kind = "ImportRecursionLimit"
    /\ res.start = <<"a">>
    /\ Len(res.path) = IMPORT_RECURSION_LIMIT + 1

\* C3 as claimed: a call of import() either finishes after at most
\* IMPORT_RECURSION_LIMIT rewrite steps or reports ImportCycle.
C3_CycleOrWithinLimit ==
    ImportReturned =>
        \/ res.kind = "ImportCycle"
        \/ Len(res.trace) <= IMPORT_RECURSION_LIMIT

(* C4 *)

\* The items a call rewrote are pairwise different up to position n.
DistinctItems(trace, n) ==
    \A i, j \in 1..n : i # j => trace[i].item # trace[j].item

\* C4: import() returns ImportCycle exactly when rewriting came back to a
\* full path the same call had rewritten before, and the reported path then
\* holds, in order, one ImportStep for every import the call followed, the
\* one closing the cycle included: its location and the target it imports.
C4_CycleReportsChain ==
    /\ imp.active => DistinctItems(imp.trace, Len(imp.trace))
    /\ ImportReturned =>
        /\ res.kind = "ImportCycle" <=>
                ~DistinctItems(res.trace, Len(res.trace))
        /\ DistinctItems(res.trace, Len(res.trace) - 1)
        /\ res.kind = "ImportCycle" =>
            /\ Len(res.path) = Len(res.trace)
            /\ \A i \in 1..Len(res.trace) :
                  \E m \in ImportsAt(SubSeq(res.trace[i].item, 1, res.trace[i].k)) :
                      /\ res.path[i].location = m.import.location
                      /\ res.path[i].item = m.import.target

\* a -> b -> a was followed, and the step back into a closed the cycle.
C4_Witness ==
    /\ ImportReturned
    /\ res.kind = "ImportCycle"
    /\ Len(res.path) = 3
    /\ res.path[1].item # res.path[2].item
    /\ res.path[3] = res.path[1]

(* C10 *)

\* The import a call followed in the iteration t of its trace, and the path
\* it rewrote the item to: the target of the import joined with the
\* components that followed the prefix.
FollowedImport(t) == CHOOSE m \in ImportsAt(SubSeq(t.item, 1, t.k)) : TRUE
Rewritten(t) ==
    FollowedImport(t).import.target \o SubSeq(t.item, t.k + 1, Len(t.item))

\* Under the prefix of length k of the item, and under no shorter one, an
\* import is registered.
FirstImport(t) ==
    /\ t.k \in 1..Len(t.item)
    /\ \A j \in 1..(t.k - 1) : ImportsAt(SubSeq(t.item, 1, j)) = {}
    /\ ImportsAt(SubSeq(t.item, 1, t.k)) # {}

\* C10: import(module, item) walks the prefixes of the path from the shortest
\* to the longest; at the first prefix that is a registered import it
\* replaces the path by the target of the import followed by the components
\* after the prefix, goes on in the module of the import and restarts; it
\* returns Some(final path) if it followed an import, and None if no prefix
\* of the original path is an import.
C10_ImportRewrites ==
    ImportReturned =>
        LET n == Len(res.trace)
        IN  /\ n > 0 => res.trace[1].item = res.start /\ res.trace[1].module = res.from
            /\ n = 0 => res.item = res.start
            /\ \A i \in 1..n : FirstImport(res.trace[i])
            /\ \A i \in 1..(n - 1) :
                  /\ res.trace[i + 1].item = Rewritten(res.trace[i])
                  /\ res.trace[i + 1].module = FollowedImport(res.trace[i]).import.module
            /\ (n > 0 /\ res.kind # "ImportCycle") =>
                  res.item = Rewritten(res.trace[n])
            /\ res.kind = "Ok" =>
                  /\ res.some <=> n > 0
                  /\ \A j \in 1..Len(res.item) :
                        ImportsAt(SubSeq(res.item, 1, j)) = {}

\* a::b was rewritten under its second prefix by the import of the module a,
\* and the walk went on in that module.
C10_Witness ==
    /\ ImportReturned
    /\ res.kind = "Ok"
    /\ res.some
    /\ res.start = <<"a", "b">>
    /\ Len(res.trace) >= 2
    /\ res.trace[1].k = 2
    /\ res.trace[2].module = 2

(* ------------------------------ visibility ----------------------------- *)

VisDecls == {"Public", "Inherited"}

\* A module a of the root module, with a function b or an import b of its
\* own, and imports of a::b requested by the root module and by a.
NextVis ==
    \/ InsertRootMod
    \/ InsertMod(1, "a", "Public")
    \/ \E v \in VisDecls : IndexItem(2, "b", "Function", v)
    \/ \E v \in VisDecls : InsertImport(2, v, <<"a">>, <<"c">>, "b", FALSE)
    \/ \E from \in {1, 2} : ImportCall(from, <<"a", "b">>, "Used")
    \/ \E debug \in BOOLEAN : ImportIter(debug)

SpecVis == Init /\ [][NextVis]_vars

(* C2 *)

\* The visibility rule: every module on the way from the common ancestor of
\* the requesting module and the module of the item down to that module is
\* visible from the common ancestor, and the visibility of the item admits
\* the requesting module.
AccessOk(from, module, visibility) ==
    LET common == ancestry(module_item(from), module_item(module)).common
        tree == ancestry(module_item(from), module_item(module)).tree
    IN  /\ \A i \in 1..Len(tree) :
              /\ HasModule(common \o SubSeq(tree, 1, i))
              /\ is_visible(module_by_item(common \o SubSeq(tree, 1, i)).visibility,
                            common, common \o SubSeq(tree, 1, i))
        /\ is_visible_inside(visibility, common, module_item(module))

\* Every prefix of the item up to length k that has a Meta is accessible
\* from the module.
PrefixesAccessible(from, item, k) ==
    \A j \in 1..k :
        \A m \in meta :
            (m.item_meta.item = SubSeq(item, 1, j) /\ m.parameters = HashEMPTY) =>
                AccessOk(from, m.item_meta.module, m.item_meta.visibility)

\* C2: when import(span, F, item, used) returns successfully, after whatever
\* queries and imports by other modules, every item whose import or indexed
\* entry was used in the resolution satisfies the visibility rule for the
\* module that requested it, also when its Meta was cached by an earlier
\* request from another module.
C2_ResolvedIsVisible ==
    (ImportReturned /\ res.kind = "Ok") =>
        IF res.trace = << >>
        THEN PrefixesAccessible(res.from, res.item, Len(res.item))
        ELSE PrefixesAccessible(res.from, res.trace[1].item, res.trace[1].k)

(* --------------------------- the access check -------------------------- *)

\* How many modules besides the root are declared where the access check is
\* applied to them.
MaxAccessMods == 2

\* The component of a function or block a module is declared inside.
InnerComponent == "$0"

\* An insert_mod that records the new module as its own parent.
InsertModSelf(parent, inner, name, visibility) ==
    /\ Idle
    /\ parent \in ModIds
    /\ next_id <= MaxAccessMods
    /\ LET item == module_item(parent)
                       \o (IF inner THEN <<InnerComponent>> ELSE << >>) \o <<name>>
       IN  /\ next_id' = next_id + 1
           /\ modules' = alloc_module(modules, [item |-> item, visibility |-> visibility,
                                                parent |-> Len(modules) + 1])
           /\ res' = [op |-> "insert_mod", kind |-> "Ok", item |-> item]
    /\ UNCHANGED <<meta, queue, indexed, items, names, pool_items, imp, functions, stack>>

\* Query::insert_mod with the item its caller passes in `items`: the item
\* of the parent module, the component of a function or block the module is
\* declared inside when `inner`, and the name of the module.
InsertModAt(parent, inner, name, visibility) ==
    /\ Idle
    /\ parent \in ModIds
    /\ next_id <= MaxAccessMods
    /\ LET item == module_item(parent)
                       \o (IF inner THEN <<InnerComponent>> ELSE << >>) \o <<name>>
           item_meta == [id |-> next_id, item |-> item, module |-> parent,
                         visibility |-> visibility]
           entry == [item_meta |-> item_meta,
                     indexed |-> [NoEntry.indexed EXCEPT !.kind = "Module"]]
       IN  /\ next_id' = next_id + 1
           /\ pool_items' = pool_alloc(pool_items, item)
           /\ items' = insert_new_item_with(items, item_meta)
           /\ modules' = alloc_module(modules, [item |-> item, visibility |-> visibility,
                                                parent |-> parent])
           /\ queue' = queue_push(queue, BuildEntry(item_meta, "Query", "Used"))
           /\ names' = insert_name(names, item)
           /\ indexed' = index(indexed, entry)
           /\ res' = [op |-> "insert_mod", kind |-> "Ok", item |-> item]
    /\ UNCHANGED <<meta, imp,
                   functions, stack>>

\* Query::check_access_to, called as import_step calls it: for an item of
\* the module `module` with `visibility`, requested by the module `from`
\* after the import steps of `chain`.
CheckAccessTo(from, item, module, visibility, chain) ==
    /\ Idle
    /\ from \in ModIds
    /\ module \in ModIds
    /\ LET returned(r) ==
               /\ Commit(r.q)
               /\ res' = [op |-> "check_access_to", kind |-> r.kind, from |-> from,
                          item |-> item, module |-> module,
                          visibility |-> visibility, path |-> chain,
                          chain |-> r.chain]
       IN  returned(check_access_to(QState(FALSE), from, item, module, visibility,
                                    chain))
    /\ UNCHANGED imp

AccessVis == {"Public", "Inherited", "Super"}

\* The import steps followed before the check: none, one or two.
AccessChains ==
    {<< >>,
     <<[location |-> 7, item |-> <<"a">>]>>,
     <<[location |-> 7, item |-> <<"a">>], [location |-> 9, item |-> <<"b">>]>>}

\* Modules a and b nested in one another and in functions, and the access
\* check for a function f of any of them requested by any of them.
NextAccess ==
    \/ InsertRootMod
    \/ \E parent \in 1..MaxAccessMods, inner \in BOOLEAN, name \in {"a", "b"},
          v \in AccessVis :
          InsertModAt(parent, inner, name, v)
    \/ \E from, module \in 1..(MaxAccessMods + 1), v \in AccessVis,
          chain \in AccessChains :
          CheckAccessTo(from, module_item(module) \o <<"f">>, module, v, chain)

SpecAccess == Init /\ [][NextAccess]_vars

(* C11 *)

AccessChecked == res.op = "check_access_to"

\* The modules on the descent from the common ancestor of the requesting
\* module and the module of the item to the latter, the ancestor excluded.
DescentLen == Len(module_item(res.module))
                  - CommonLen(module_item(res.from), module_item(res.module), 0)
CommonAncestor ==
    SubSeq(module_item(res.module), 1,
           CommonLen(module_item(res.from), module_item(res.module), 0))
Descent(i) == SubSeq(module_item(res.module), 1, Len(CommonAncestor) + i)

NotRegistered(i) == \A m \in ModIds : modules[m].item # Descent(i)
NotVisibleFromCommon(i) ==
    \E m \in ModIds :
        /\ modules[m].item = Descent(i)
        /\ ~is_visible(modules[m].visibility, CommonAncestor, Descent(i))
Fails(i) == NotRegistered(i) \/ NotVisibleFromCommon(i)
FirstFailure == CHOOSE i \in 1..DescentLen :
                    Fails(i) /\ \A j \in 1..(i - 1) : ~Fails(j)

CarriesChain ==
    /\ Len(res.chain) = Len(res.path)
    /\ \A i \in 1..Len(res.path) : res.chain[i] = res.path[i].location

\* C11: check_access_to checks the modules on the descent from the common
\* ancestor of F and M down to M in order: the first one that is not
\* registered gives MissingMod, the first one that is not visible from the
\* common ancestor gives NotVisibleMod; when all pass, a visibility V that
\* does not admit the access gives NotVisible, and otherwise the result is
\* Ok.  Both visibility errors carry the locations of the import chain.  A
\* private function of a child module requested by the parent module gives
\* NotVisible.
C11_AccessDescent ==
    AccessChecked =>
        /\ IF \E i \in 1..DescentLen : Fails(i)
           THEN IF NotRegistered(FirstFailure)
                THEN res.kind = "MissingMod"
                ELSE res.kind = "NotVisibleMod" /\ CarriesChain
           ELSE IF ~is_visible_inside(res.visibility, CommonAncestor,
                                      module_item(res.module))
                THEN res.kind = "NotVisible" /\ CarriesChain
                ELSE res.kind = "Ok"
        /\ (/\ res.visibility = "Inherited"
            /\ \E name \in {"a", "b"} :
                   module_item(res.module) = module_item(res.from) \o <<name>>)
               => res.kind = "NotVisible"

\* A module that is not registered is reported although a module below it
\* on the descent is not visible, after two import steps.
C11_Witness ==
    /\ AccessChecked
    /\ res.kind = "MissingMod"
    /\ Len(res.path) = 2
    /\ \E i \in 1..DescentLen : FirstFailure < i /\ NotVisibleFromCommon(i)

(* ------------------ the function registry (crates/st) ------------------ *)

\* How many values the stack of the Vm holds before a handler is called.
MaxStack == 3

\* The variables of the query engine, which the virtual machine leaves alone.
QueryVars == <<meta, queue, indexed, items, names, pool_items, modules, next_id, imp>>

\* The number of values a Hash takes here: distinct names may collide.
HashSpace == 4

NameCode(name) == CASE name = "f" -> 1 [] name = "g" -> 2 [] OTHER -> 5
TypeCode(ty) == IF ty = "str" THEN 1 ELSE 2

\* Hash::global_fn
global_fn(name) == NameCode(name) % HashSpace

\* Hash::instance_fn
instance_fn(ty, name) == (3 * TypeCode(ty) + NameCode(name)) % HashSpace

\* FromValue::from_value: a value converts to the parameter type it has.
from_value(ty, value) == value = ty

\* Functions::register with HashMap::insert alone: the handler of a
\* registered hash is replaced.
register_replace(fs, name, f) ==
    LET hash == global_fn(name)
        handler == [kind |-> "register", name |-> name, f |-> f]
    IN  [functions |-> [h \in DOMAIN fs \cup {hash} |->
                            IF h = hash THEN handler ELSE fs[h]],
         kind |-> "Ok", hash |-> hash, handler |-> handler]

\* Functions::register
register(fs, name, f) ==
    LET hash == global_fn(name)
        handler == [kind |-> "register", name |-> name, f |-> f]
    IN  IF hash \in DOMAIN fs
        THEN [functions |-> fs, kind |-> "ConflictingFunction", hash |-> hash,
              handler |-> handler]
        ELSE [functions |-> fs @@ (hash :> handler), kind |-> "Ok", hash |-> hash,
              handler |-> handler]

\* Functions::register_instance
register_instance(fs, name, f) ==
    LET hash == instance_fn(f.inst, name)
        handler == [kind |-> "instance", name |-> name, f |-> f]
    IN  IF hash \in DOMAIN fs
        THEN [functions |-> fs, kind |-> "ConflictingFunction", hash |-> hash,
              handler |-> handler]
        ELSE [functions |-> fs @@ (hash :> handler), kind |-> "Ok", hash |-> hash,
              handler |-> handler]

\* Functions::register_async
register_async(fs, name, f) ==
    LET hash == global_fn(name)
        handler == [kind |-> "async", name |-> name, f |-> f]
    IN  IF hash \in DOMAIN fs
        THEN [functions |-> fs, kind |-> "ConflictingFunction", hash |-> hash,
              handler |-> handler]
        ELSE [functions |-> fs @@ (hash :> handler), kind |-> "Ok", hash |-> hash,
              handler |-> handler]

\* Functions::register_raw
register_raw(fs, name, f) ==
    LET hash == global_fn(name)
        handler == [kind |-> "raw", name |-> name, f |-> f]
    IN  IF hash \in DOMAIN fs
        THEN [functions |-> fs, kind |-> "ConflictingFunction", hash |-> hash,
              handler |-> handler]
        ELSE [functions |-> fs @@ (hash :> handler), kind |-> "Ok", hash |-> hash,
              handler |-> handler]

\* Functions::lookup
lookup(fs, hash) ==
    IF hash \in DOMAIN fs
    THEN [some |-> TRUE, handler |-> fs[hash]]
    ELSE [some |-> FALSE, handler |-> [kind |-> "none", name |-> "", f |-> << >>]]

\* The pops of vm_call: for every parameter in turn, managed_pop and
\* from_value; tys[i] is the type of the parameter popped i-th.
RECURSIVE pop_args(_, _, _)
pop_args(stk, tys, i) ==
    IF i > Len(tys)
    THEN [stack |-> stk, kind |-> "Ok"]
    ELSE IF stk = << >>
    THEN [stack |-> stk, kind |-> "StackError"]
    ELSE IF ~from_value(tys[i], stk[Len(stk)])
    THEN [stack |-> SubSeq(stk, 1, Len(stk) - 1), kind |-> "ArgumentConversionError"]
    ELSE pop_args(SubSeq(stk, 1, Len(stk) - 1), tys, i + 1)

\* What follows the pops: the host function is called, and the value it
\* returns is pushed; `ok` tells whether it returns Ok.
call_and_push(popped, f, ok) ==
    IF popped.kind # "Ok"
    THEN popped
    ELSE IF ~ok
    THEN [stack |-> popped.stack, kind |-> "Other"]
    ELSE [stack |-> Append(popped.stack, f.ret), kind |-> "Ok"]

\* Register::vm_call
vm_call(f, stk, ok) == call_and_push(pop_args(stk, f.args, 1), f, ok)

\* RegisterInstance::vm_call: the instance is popped before the arguments.
vm_call_instance(f, stk, ok) ==
    call_and_push(pop_args(stk, <<f.inst>> \o f.args, 1), f, ok)

\* RegisterAsync::vm_call, awaited to its end.
vm_call_async(f, stk, ok) == call_and_push(pop_args(stk, f.args, 1), f, ok)

\* A raw function of the host, called with the Vm and the argument count it
\* was given: one that discards its arguments and pushes a value.
raw_call(f, stk, args, ok) ==
    IF Len(stk) < args
    THEN [stack |-> << >>, kind |-> "StackError"]
    ELSE IF ~ok
    THEN [stack |-> SubSeq(stk, 1, Len(stk) - args), kind |-> "Other"]
    ELSE [stack |-> Append(SubSeq(stk, 1, Len(stk) - args), f.ret), kind |-> "Ok"]

\* The Handler installed for a function, called as handler(vm, argc): the
\* handlers of register, register_instance and register_async drop argc.
call_handler(handler, stk, argc, ok) ==
    CASE handler.kind = "register" -> vm_call(handler.f, stk, ok)
      [] handler.kind = "instance" -> vm_call_instance(handler.f, stk, ok)
      [] handler.kind = "async" -> vm_call_async(handler.f, stk, ok)
      [] OTHER -> raw_call(handler.f, stk, argc, ok)

\* The host functions registered: their parameter types in the order they
\* are popped, and the type of the value they return.
HostFns ==
    {[inst |-> "none", args |-> <<"int">>, ret |-> "int"],
     [inst |-> "none", args |-> <<"int", "str">>, ret |-> "str"]}
HostInstanceFns == {[inst |-> "str", args |-> <<"int">>, ret |-> "int"]}
HostAsyncFns == {[inst |-> "none", args |-> << >>, ret |-> "unit"]}
HostRawFns == {[inst |-> "none", args |-> << >>, ret |-> "unit"]}
FnNames == {"f", "g", "h"}
Values == {"int", "str"}

\* Functions::register
Register(name, f) ==
    /\ LET returned(r) ==
               /\ functions' = r.functions
               /\ res' = [op |-> "register", kind |-> r.kind, hash |-> r.hash,
                          handler |-> r.handler]
       IN  returned(register(functions, name, f))
    /\ UNCHANGED <<QueryVars, stack>>

\* Functions::register_instance
RegisterInstance(name, f) ==
    /\ LET returned(r) ==
               /\ functions' = r.functions
               /\ res' = [op |-> "register_instance", kind |-> r.kind,
                          hash |-> r.hash, handler |-> r.handler]
       IN  returned(register_instance(functions, name, f))
    /\ UNCHANGED <<QueryVars, stack>>

\* Functions::register_async
RegisterAsync(name, f) ==
    /\ LET returned(r) ==
               /\ functions' = r.functions
               /\ res' = [op |-> "register_async", kind |-> r.kind, hash |-> r.hash,
                          handler |-> r.handler]
       IN  returned(register_async(functions, name, f))
    /\ UNCHANGED <<QueryVars, stack>>

\* Functions::register_raw
RegisterRaw(name, f) ==
    /\ LET returned(r) ==
               /\ functions' = r.functions
               /\ res' = [op |-> "register_raw", kind |-> r.kind, hash |-> r.hash,
                          handler |-> r.handler]
       IN  returned(register_raw(functions, name, f))
    /\ UNCHANGED <<QueryVars, stack>>

\* Functions::lookup
Lookup(hash) ==
    /\ res' = [op |-> "lookup", kind |-> "Ok", hash |-> hash,
               some |-> lookup(functions, hash).some,
               handler |-> lookup(functions, hash).handler]
    /\ UNCHANGED <<QueryVars, functions, stack>>

\* The Vm pushes a value, an argument of a call to come.
Push(value) ==
    /\ Len(stack) < MaxStack
    /\ stack' = Append(stack, value)
    /\ res' = [op |-> "push", kind |-> "Ok"]
    /\ UNCHANGED <<QueryVars, functions>>

\* The Vm calls the handler registered for the hash with the count of the
\* arguments it pushed.  res keeps the stack the handler found.
CallHandler(hash, argc, ok) ==
    /\ lookup(functions, hash).some
    /\ argc <= Len(stack)
    /\ Len(stack) <= MaxStack
    /\ LET returned(r) ==
               /\ stack' = r.stack
               /\ res' = [op |-> "call", kind |-> r.kind, hash |-> hash,
                          handler |-> functions[hash], argc |-> argc,
                          stack |-> stack]
       IN  returned(call_handler(functions[hash], stack, argc, ok))
    /\ UNCHANGED <<QueryVars, functions>>

NextFunctions ==
    \/ \E name \in FnNames, f \in HostFns : Register(name, f)
    \/ \E name \in FnNames, f \in HostInstanceFns : RegisterInstance(name, f)
    \/ \E name \in FnNames, f \in HostAsyncFns : RegisterAsync(name, f)
    \/ \E name \in FnNames, f \in HostRawFns : RegisterRaw(name, f)
    \/ \E hash \in 0..(HashSpace - 1) : Lookup(hash)
    \/ \E value \in Values : Push(value)
    \/ \E hash \in 0..(HashSpace - 1), argc \in 0..MaxStack, ok \in BOOLEAN :
          CallHandler(hash, argc, ok)

SpecFunctions == Init /\ [][NextFunctions]_vars

(* C12 *)

RegisterOps == {"register", "register_instance", "register_async", "register_raw"}

\* A registration of a registered hash is refused and changes nothing; one
\* of a free hash installs its handler; no other step changes the registry.
RegisterStep ==
    IF res'.op \in RegisterOps
    THEN IF res'.hash \in DOMAIN functions
         THEN res'.kind = "ConflictingFunction" /\ functions' = functions
         ELSE /\ res'.kind = "Ok"
              /\ DOMAIN functions' = DOMAIN functions \cup {res'.hash}
              /\ functions'[res'.hash] = res'.handler
              /\ \A h \in DOMAIN functions : functions'[h] = functions[h]
    ELSE functions' = functions

LookupFinds ==
    res.op = "lookup" =>
        /\ res.some <=> res.hash \in DOMAIN functions
        /\ res.some => res.handler = functions[res.hash]

\* C12: registering a function under a hash that is registered returns
\* ConflictingFunction with that hash and leaves the registry as it was, so
\* that the handler of the first successful registration stays the one
\* lookup returns; the registry starts empty and gains a hash only by a
\* successful registration, so lookup(hash) returns a handler exactly when
\* a registration of the hash succeeded.
C12_ConflictKeepsFirst ==
    /\ functions = << >>
    /\ []LookupFinds
    /\ [][RegisterStep]_vars

\* A function was refused under the hash of a function with another name,
\* and lookup still returns the handler registered first.
C12_Witness ==
    /\ res.op \in RegisterOps
    /\ res.kind = "ConflictingFunction"
    /\ res.hash \in DOMAIN functions
    /\ functions[res.hash].name # res.handler.name
    /\ lookup(functions, res.hash).handler = functions[res.hash]

(* C13 *)

Typed == {"register", "instance", "async"}

\* C13: a handler installed by register, register_instance or
\* register_async that is called as handler(vm, argc) and returns Ok has
\* popped argc values from the stack and pushed one, whatever argc is.
C13_HandlerPopsArgc ==
    (res.op = "call" /\ res.kind = "Ok" /\ res.handler.kind \in Typed) =>
        /\ Len(stack) = Len(res.stack) - res.argc + 1
        /\ SubSeq(stack, 1, Len(stack) - 1)
               = SubSeq(res.stack, 1, Len(res.stack) - res.argc)

(* --------------------------- the source loader ------------------------- *)

\* The variables of the virtual machine.
VmVars == <<functions, stack>>

\* A path is the sequence of its components, a component a file stem and an
\* extension; the empty sequence is the empty path.
Comp(stem, ext) == [stem |-> stem, ext |-> ext]

\* PathBuf::pop: false, and nothing done, for a path without a parent.
path_pop(path) ==
    IF path = << >>
    THEN [ok |-> FALSE, path |-> path]
    ELSE [ok |-> TRUE, path |-> SubSeq(path, 1, Len(path) - 1)]

\* PathBuf::push of a relative component
path_push(path, string) == Append(path, Comp(string, ""))

\* Path::join("mod.rn")
path_join_mod_rn(path) == Append(path, Comp("mod", "rn"))

\* Path::with_extension: the extension of the file name is replaced; a path
\* without a file name is left as it is.
with_extension(path, ext) ==
    IF path = << >>
    THEN path
    ELSE [path EXCEPT ![Len(path)] = Comp(@.stem, ext)]

\* Path::is_file
is_file(fs, path) == path \in fs.files

\* Source::from_path
from_path(fs, path) == path \in fs.files /\ path \notin fs.unreadable

\* The candidates in the opposite order.
candidates_file_first(base) == <<with_extension(base, "rn"), path_join_mod_rn(base)>>

\* let candidates = [base.join("mod.rn"), base.with_extension("rn")];
candidates(base) == <<path_join_mod_rn(base), with_extension(base, "rn")>>

\* The loop over the components of the item: every string component is
\* pushed, any other ends the call.
RECURSIVE push_item(_, _, _)
push_item(base, item, i) ==
    IF i > Len(item)
    THEN [ok |-> TRUE, path |-> base]
    ELSE IF item[i].kind # "Str"
    THEN [ok |-> FALSE, path |-> base]
    ELSE push_item(path_push(base, item[i].name), item, i + 1)

\* The loop over the candidates: the first one that is a file.
RECURSIVE find_candidate(_, _, _)
find_candidate(fs, cands, i) ==
    IF i > Len(cands)
    THEN [some |-> FALSE, path |-> << >>]
    ELSE IF is_file(fs, cands[i])
    THEN [some |-> TRUE, path |-> cands[i]]
    ELSE find_candidate(fs, cands, i + 1)

\* FileSourceLoader::load
load(fs, root, item) ==
    LET found(f, base) ==
            IF ~f.some
            THEN [kind |-> "ModNotFound", path |-> base]
            ELSE IF from_path(fs, f.path)
            THEN [kind |-> "Ok", path |-> f.path]
            ELSE [kind |-> "FileError", path |-> f.path]
        pushed(b) ==
            IF ~b.ok
            THEN [kind |-> "UnsupportedModuleItem", path |-> << >>]
            ELSE found(find_candidate(fs, candidates(b.path), 1), b.path)
        popped(b) ==
            IF ~b.ok
            THEN [kind |-> "UnsupportedModuleRoot", path |-> root]
            ELSE pushed(push_item(b.path, item, 1))
    IN  popped(path_pop(root))

Str(name) == [kind |-> "Str", name |-> name]

\* The paths of the root source: none, a file, a file in a directory.
LoadRoots == {<< >>, <<Comp("main", "rn")>>, <<Comp("src", ""), Comp("main", "rn")>>}

\* The items of the modules loaded: foo, a::foo, and an item with a
\* component that is not a string.
LoadItems == {<<Str("foo")>>, <<Str("a"), Str("foo")>>,
              <<Str("foo"), [kind |-> "Id", name |-> ""]>>}

\* The files there may be.
LoadFiles ==
    {<<Comp("foo", ""), Comp("mod", "rn")>>,
     <<Comp("foo", "rn")>>,
     <<Comp("src", ""), Comp("foo", ""), Comp("mod", "rn")>>,
     <<Comp("src", ""), Comp("foo", "rn")>>,
     <<Comp("src", ""), Comp("a", ""), Comp("foo", "rn")>>,
     <<Comp("src", ""), Comp("foo", "")>>}

\* The file systems: any of the files, all of them readable or none.
FileSystems ==
    UNION {{[files |-> fl, unreadable |-> {}], [files |-> fl, unreadable |-> fl]} :
              fl \in SUBSET LoadFiles}

\* FileSourceLoader::load on the file system `fs`.
Load(fs, root, item) ==
    /\ LET returned(r) ==
               res' = [op |-> "load", kind |-> r.kind, path |-> r.path, fs |-> fs,
                       root |-> root, item |-> item]
       IN  returned(load(fs, root, item))
    /\ UNCHANGED <<QueryVars, VmVars>>

NextLoad ==
    \E fs \in FileSystems, root \in LoadRoots, item \in LoadItems : Load(fs, root, item)

SpecLoad == Init /\ [][NextLoad]_vars

(* C14 *)

\* The module item foo, alone or below other modules, under a root path
\* that has a parent.
LoadedMod ==
    /\ res.op = "load"
    /\ res.root # << >>
    /\ \A i \in 1..Len(res.item) : res.item[i].kind = "Str"

\* P/../foo, P/../foo/mod.rn and P/../foo.rn
ModBase ==
    SubSeq(res.root, 1, Len(res.root) - 1)
        \o [i \in 1..Len(res.item) |-> [stem |-> res.item[i].name, ext |-> ""]]
ModRn == ModBase \o <<[stem |-> "mod", ext |-> "rn"]>>
FileRn ==
    SubSeq(ModBase, 1, Len(ModBase) - 1)
        \o <<[stem |-> res.item[Len(res.item)].name, ext |-> "rn"]>>

\* C14: load for the module item foo under the root path P probes
\* P/../foo/mod.rn first and P/../foo.rn second and loads the first of the
\* two that is a file, mod.rn when both are; opening that file is the only
\* access, and its failure is reported for that path; when neither is a file
\* the result is ModNotFound with the base path P/../foo.
C14_LoadProbesInOrder ==
    LoadedMod =>
        IF ModRn \in res.fs.files
        THEN res.path = ModRn /\ res.kind \in {"Ok", "FileError"}
        ELSE IF FileRn \in res.fs.files
        THEN res.path = FileRn /\ res.kind \in {"Ok", "FileError"}
        ELSE res.kind = "ModNotFound" /\ res.path = ModBase

\* Both candidates are files, next to files that are neither, and mod.rn is
\* the one loaded.
C14_Witness ==
    /\ LoadedMod
    /\ res.kind = "Ok"
    /\ {ModRn, FileRn} \subseteq res.fs.files
    /\ res.fs.files \ {ModRn, FileRn} # {}
    /\ res.path = ModRn

(* ------------------------ the parser (ast.rs) -------------------------- *)

\* A source is the sequence of its tokens, a token the name of its Kind; the
\* span of a token is its position.  The binary operators:
BinOps == {"Plus", "Minus", "Slash", "Star", "EqEq", "Neq", "Lt", "Gt", "Lte", "Gte"}

\* Parser::token_peek and token_peek2: the kind of the token, "Eof" for None.
token_peek(toks, pos) == IF pos <= Len(toks) THEN toks[pos] ELSE "Eof"
token_peek2(toks, pos) == IF pos + 1 <= Len(toks) THEN toks[pos + 1] ELSE "Eof"

\* Result<T, ParseError> of a parse that left the parser at `pos`.
Done(node, pos) == [ok |-> TRUE, node |-> node, pos |-> pos, error |-> "None"]
Fail(error, pos) == [ok |-> FALSE, node |-> [node |-> "None"], pos |-> pos,
                     error |-> error]

\* The Parse of a token declared by decl_tokens.
parse_token(toks, pos, kind) ==
    IF pos > Len(toks)
    THEN Fail("UnexpectedEof", pos)
    ELSE IF toks[pos] = kind
    THEN Done([node |-> "Token", kind |-> kind, at |-> pos], pos + 1)
    ELSE Fail("TokenMismatch", pos)

\* A precedence that is the same for every operator.
precedence_flat(op) == 0

\* BinOp::precedence
precedence(op) ==
    CASE op \in {"Plus", "Minus"} -> 0
      [] op \in {"Slash", "Star"} -> 10
      [] op \in {"EqEq", "Neq"} -> 20
      [] OTHER -> 30

\* BinOp::from_token(..).is_some()
from_token(kind) == kind \in BinOps

\* Expr::is_const of the literals.
is_const(expr) == expr.node \in {"NumberLiteral", "StringLiteral", "BoolLiteral",
                                 "UnitLiteral"}

RECURSIVE parse_expr(_, _)
RECURSIVE parse_primary(_, _, _)
RECURSIVE parse_expr_binary(_, _, _, _)
RECURSIVE parse_expr_binary_rhs(_, _, _, _)
RECURSIVE parse_block(_, _)
RECURSIVE parse_block_loop(_, _, _, _)
RECURSIVE parse_expr_if(_, _)
RECURSIVE parse_expr_if_loop(_, _, _)
RECURSIVE parse_array_items(_, _, _)
RECURSIVE parse_object_items(_, _, _)
RECURSIVE parse_function_args_items(_, _, _)
RECURSIVE parse_lit_object_items(_, _, _, _)
RECURSIVE parse_path_rest(_, _, _)

\* Path::parse
parse_path_rest(toks, pos, path) ==
    IF token_peek(toks, pos) # "Scope"
    THEN Done(path, pos)
    ELSE LET named(r) ==
                 IF ~r.ok
                 THEN r
                 ELSE parse_path_rest(toks, r.pos,
                                      [path EXCEPT !.rest = Append(@, r.node.at)])
             scoped(r) == IF ~r.ok THEN r ELSE named(parse_token(toks, r.pos, "Ident"))
         IN  scoped(parse_token(toks, pos, "Scope"))

parse_path(toks, pos) ==
    LET first(r) ==
            IF ~r.ok
            THEN r
            ELSE parse_path_rest(toks, r.pos,
                                 [node |-> "Path", first |-> r.node.at, rest |-> << >>])
    IN  first(parse_token(toks, pos, "Ident"))

RECURSIVE parse_array_items_strict(_, _, _)
\* A loop that takes an item after every comma: no trailing comma.
parse_array_items_strict(toks, pos, elems) ==
    IF token_peek(toks, pos) = "CloseBracket" /\ elems = << >>
    THEN Done([node |-> "Items", items |-> elems], pos)
    ELSE LET item(r) ==
                 IF ~r.ok
                 THEN r
                 ELSE IF token_peek(toks, r.pos) = "Comma"
                 THEN parse_array_items_strict(toks, r.pos + 1, Append(elems, r.node))
                 ELSE Done([node |-> "Items", items |-> Append(elems, r.node)], r.pos)
         IN  item(parse_expr(toks, pos))

\* The loop of ArrayLiteral::parse
parse_array_items(toks, pos, elems) ==
    IF token_peek(toks, pos) = "CloseBracket"
    THEN Done([node |-> "Items", items |-> elems], pos)
    ELSE LET item(r) ==
                 IF ~r.ok
                 THEN r
                 ELSE IF token_peek(toks, r.pos) = "Comma"
                 THEN parse_array_items(toks, r.pos + 1, Append(elems, r.node))
                 ELSE Done([node |-> "Items", items |-> Append(elems, r.node)], r.pos)
         IN  item(parse_expr(toks, pos))

\* ArrayLiteral::parse
parse_array_literal(toks, pos) ==
    LET closed(r, elems) ==
            IF ~r.ok
            THEN r
            ELSE Done([node |-> "ArrayLiteral", items |-> elems], r.pos)
        filled(r) ==
            IF ~r.ok
            THEN r
            ELSE closed(parse_token(toks, r.pos, "CloseBracket"), r.node.items)
        opened(r) == IF ~r.ok THEN r ELSE filled(parse_array_items(toks, r.pos, << >>))
    IN  opened(parse_token(toks, pos, "OpenBracket"))

\* StringLiteral::parse
parse_string_literal(toks, pos) ==
    IF pos > Len(toks)
    THEN Fail("UnexpectedEof", pos)
    ELSE IF toks[pos] = "StringLiteral"
    THEN Done([node |-> "StringLiteral", at |-> pos], pos + 1)
    ELSE Fail("ExpectedStringError", pos)

\* The loop of ObjectLiteral::parse
parse_object_items(toks, pos, elems) ==
    IF token_peek(toks, pos) = "CloseBrace"
    THEN Done([node |-> "Items", items |-> elems], pos)
    ELSE LET value(r, key) ==
                 IF ~r.ok
                 THEN r
                 ELSE IF token_peek(toks, r.pos) = "Comma"
                 THEN parse_object_items(toks, r.pos + 1,
                                         Append(elems, [key |-> key, expr |-> r.node]))
                 ELSE Done([node |-> "Items",
                            items |-> Append(elems, [key |-> key, expr |-> r.node])],
                           r.pos)
             colon(r, key) == IF ~r.ok THEN r ELSE value(parse_expr(toks, r.pos), key)
             key(r) == IF ~r.ok THEN r ELSE colon(parse_token(toks, r.pos, "Colon"), r.node)
         IN  key(parse_string_literal(toks, pos))

\* ObjectLiteral::parse
parse_object_literal(toks, pos) ==
    LET closed(r, elems) ==
            IF ~r.ok
            THEN r
            ELSE Done([node |-> "ObjectLiteral", items |-> elems], r.pos)
        filled(r) ==
            IF ~r.ok
            THEN r
            ELSE closed(parse_token(toks, r.pos, "CloseBrace"), r.node.items)
        opened(r) == IF ~r.ok THEN r ELSE filled(parse_object_items(toks, r.pos, << >>))
    IN  opened(parse_token(toks, pos, "OpenBrace"))

\* The loop of FunctionArgs::parse
parse_function_args_items(toks, pos, elems) ==
    IF token_peek(toks, pos) = "CloseParen"
    THEN Done([node |-> "Items", items |-> elems], pos)
    ELSE LET item(r) ==
                 IF ~r.ok
                 THEN r
                 ELSE IF token_peek(toks, r.pos) = "Comma"
                 THEN parse_function_args_items(toks, r.pos + 1, Append(elems, r.node))
                 ELSE Done([node |-> "Items", items |-> Append(elems, r.node)], r.pos)
         IN  item(parse_expr(toks, pos))

\* FunctionArgs::<Expr>::parse
parse_function_args(toks, pos) ==
    LET closed(r, elems) ==
            IF ~r.ok
            THEN r
            ELSE Done([node |-> "FunctionArgs", items |-> elems], r.pos)
        filled(r) ==
            IF ~r.ok
            THEN r
            ELSE closed(parse_token(toks, r.pos, "CloseParen"), r.node.items)
        opened(r) ==
            IF ~r.ok THEN r ELSE filled(parse_function_args_items(toks, r.pos, << >>))
    IN  opened(parse_token(toks, pos, "OpenParen"))

\* LitObjectKey::parse
parse_lit_object_key(toks, pos) ==
    IF pos > Len(toks)
    THEN Fail("UnexpectedEof", pos)
    ELSE IF toks[pos] \in {"LitStr", "Ident"}
    THEN Done([node |-> toks[pos], at |-> pos], pos + 1)
    ELSE Fail("ExpectedLitObjectKey", pos)

\* The loop of LitObject::parse
parse_lit_object_items(toks, pos, elems, const) ==
    IF token_peek(toks, pos) = "CloseBrace"
    THEN Done([node |-> "Items", items |-> elems, is_const |-> const], pos)
    ELSE LET value(r, key) ==
                 IF ~r.ok
                 THEN r
                 ELSE IF token_peek(toks, r.pos) = "Comma"
                 THEN parse_lit_object_items(toks, r.pos + 1,
                                             Append(elems, [key |-> key, expr |-> r.node]),
                                             const /\ is_const(r.node))
                 ELSE Done([node |-> "Items",
                            items |-> Append(elems, [key |-> key, expr |-> r.node]),
                            is_const |-> const /\ is_const(r.node)],
                           r.pos)
             colon(r, key) == IF ~r.ok THEN r ELSE value(parse_expr(toks, r.pos), key)
             key(r) == IF ~r.ok THEN r ELSE colon(parse_token(toks, r.pos, "Colon"), r.node)
         IN  key(parse_lit_object_key(toks, pos))

\* LitObject::parse
parse_lit_object(toks, pos) ==
    LET closed(r, filled) ==
            IF ~r.ok
            THEN r
            ELSE Done([node |-> "LitObject", items |-> filled.items,
                       is_const |-> filled.is_const], r.pos)
        filled(r) ==
            IF ~r.ok THEN r ELSE closed(parse_token(toks, r.pos, "CloseBrace"), r.node)
        opened(r) ==
            IF ~r.ok THEN r ELSE filled(parse_lit_object_items(toks, r.pos, << >>, TRUE))
    IN  opened(parse_token(toks, pos, "StartObject"))

\* CallFn::parse
parse_call_fn(toks, pos) ==
    LET args(r, name) ==
            IF ~r.ok
            THEN r
            ELSE Done([node |-> "CallFn", name |-> name, args |-> r.node.items], r.pos)
        name(r) == IF ~r.ok THEN r ELSE args(parse_function_args(toks, r.pos), r.node)
    IN  name(parse_path(toks, pos))

\* CallInstanceFn::parse
parse_call_instance_fn(toks, pos) ==
    LET args(r, instance, name) ==
            IF ~r.ok
            THEN r
            ELSE Done([node |-> "CallInstanceFn", instance |-> instance,
                       name |-> name, args |-> r.node.items], r.pos)
        name(r, instance) ==
            IF ~r.ok THEN r ELSE args(parse_function_args(toks, r.pos), instance, r.node.at)
        dot(r, instance) ==
            IF ~r.ok THEN r ELSE name(parse_token(toks, r.pos, "Ident"), instance)
        instance(r) == IF ~r.ok THEN r ELSE dot(parse_token(toks, r.pos, "Dot"), r.node)
    IN  instance(parse_primary(toks, pos, FALSE))

\* Let::parse
parse_let(toks, pos) ==
    LET expr(r, name) ==
            IF ~r.ok
            THEN r
            ELSE Done([node |-> "Let", name |-> name, expr |-> r.node], r.pos)
        eq(r, name) == IF ~r.ok THEN r ELSE expr(parse_expr(toks, r.pos), name)
        name(r) == IF ~r.ok THEN r ELSE eq(parse_token(toks, r.pos, "Eq"), r.node.at)
        let_(r) == IF ~r.ok THEN r ELSE name(parse_token(toks, r.pos, "Ident"))
    IN  let_(parse_token(toks, pos, "Let"))

\* Update::parse
parse_update(toks, pos) ==
    LET expr(r, name) ==
            IF ~r.ok
            THEN r
            ELSE Done([node |-> "Update", name |-> name, expr |-> r.node], r.pos)
        eq(r, name) == IF ~r.ok THEN r ELSE expr(parse_expr(toks, r.pos), name)
        name(r) == IF ~r.ok THEN r ELSE eq(parse_token(toks, r.pos, "Eq"), r.node.at)
    IN  name(parse_token(toks, pos, "Ident"))

\* While::parse
parse_while(toks, pos) ==
    LET body(r, condition) ==
            IF ~r.ok
            THEN r
            ELSE Done([node |-> "While", condition |-> condition, body |-> r.node],
                      r.pos)
        condition(r) == IF ~r.ok THEN r ELSE body(parse_block(toks, r.pos), r.node)
        while_(r) == IF ~r.ok THEN r ELSE condition(parse_expr(toks, r.pos))
    IN  while_(parse_token(toks, pos, "While"))

\* IndexGet::parse, and the IndexSet that parse_primary makes of it when an
\* `=` follows.
parse_index(toks, pos) ==
    LET value(r, target, at) ==
            IF ~r.ok
            THEN r
            ELSE Done([node |-> "IndexSet", target |-> target, index |-> at,
                       value |-> r.node], r.pos)
        close(r, target, at) ==
            IF ~r.ok
            THEN r
            ELSE IF token_peek(toks, r.pos) = "Eq"
            THEN value(parse_expr(toks, r.pos + 1), target, at)
            ELSE Done([node |-> "IndexGet", target |-> target, index |-> at], r.pos)
        inner(r, target) ==
            IF ~r.ok
            THEN r
            ELSE close(parse_token(toks, r.pos, "CloseBracket"), target, r.node)
        open(r, target) == IF ~r.ok THEN r ELSE inner(parse_expr(toks, r.pos), target)
        target(r) ==
            IF ~r.ok THEN r ELSE open(parse_token(toks, r.pos, "OpenBracket"), r.node.at)
    IN  target(parse_token(toks, pos, "Ident"))

\* ExprGroup::parse
parse_expr_group(toks, pos) ==
    LET close(r, expr) ==
            IF ~r.ok THEN r ELSE Done([node |-> "ExprGroup", expr |-> expr], r.pos)
        expr(r) == IF ~r.ok THEN r ELSE close(parse_token(toks, r.pos, "CloseParen"), r.node)
        open(r) == IF ~r.ok THEN r ELSE expr(parse_expr(toks, r.pos))
    IN  open(parse_token(toks, pos, "OpenParen"))

\* The loop of ExprIf::parse over the else branches.
parse_expr_if_loop(toks, pos, expr_if) ==
    IF token_peek(toks, pos) # "Else"
    THEN Done(expr_if, pos)
    ELSE IF token_peek2(toks, pos) = "If"
    THEN LET block(r, condition) ==
                 IF ~r.ok
                 THEN r
                 ELSE parse_expr_if_loop(
                          toks, r.pos,
                          [expr_if EXCEPT !.expr_else_ifs =
                               Append(@, [condition |-> condition, block |-> r.node])])
             condition(r) == IF ~r.ok THEN r ELSE block(parse_block(toks, r.pos), r.node)
         IN  condition(parse_expr(toks, pos + 2))
    ELSE LET block(r) ==
                 IF ~r.ok
                 THEN r
                 ELSE parse_expr_if_loop(
                          toks, r.pos,
                          [expr_if EXCEPT !.expr_else = <<r.node>>])
         IN  block(parse_block(toks, pos + 1))

\* ExprIf::parse; expr_else is the empty sequence for None.
parse_expr_if(toks, pos) ==
    LET block(r, condition) ==
            IF ~r.ok
            THEN r
            ELSE parse_expr_if_loop(toks, r.pos,
                                    [node |-> "ExprIf", condition |-> condition,
                                     block |-> r.node, expr_else_ifs |-> << >>,
                                     expr_else |-> << >>])
        condition(r) == IF ~r.ok THEN r ELSE block(parse_block(toks, r.pos), r.node)
        if_(r) == IF ~r.ok THEN r ELSE condition(parse_expr(toks, r.pos))
    IN  if_(parse_token(toks, pos, "If"))

\* ExprIf::is_empty
expr_if_is_empty(expr_if) == expr_if.expr_else = << >>

\* Expr::parse_primary
parse_primary(toks, pos, instance_call) ==
    LET kind == token_peek(toks, pos)
        kind2 == token_peek2(toks, pos)
    IN  CASE kind = "Eof" -> Fail("UnexpectedEof", pos)
          [] kind = "While" -> parse_while(toks, pos)
          [] kind = "Let" -> parse_let(toks, pos)
          [] kind = "If" -> parse_expr_if(toks, pos)
          [] kind = "NumberLiteral" -> Done([node |-> "NumberLiteral", at |-> pos], pos + 1)
          [] kind = "StringLiteral" -> parse_string_literal(toks, pos)
          [] kind = "OpenParen" ->
                 IF kind2 = "CloseParen"
                 THEN Done([node |-> "UnitLiteral", at |-> pos], pos + 2)
                 ELSE parse_expr_group(toks, pos)
          [] kind = "OpenBracket" -> parse_array_literal(toks, pos)
          [] kind = "OpenBrace" -> parse_object_literal(toks, pos)
          [] kind \in {"True", "False"} ->
                 Done([node |-> "BoolLiteral", at |-> pos], pos + 1)
          [] kind = "Ident" ->
                 CASE kind2 = "OpenBracket" -> parse_index(toks, pos)
                   [] kind2 = "Eq" -> parse_update(toks, pos)
                   [] kind2 \in {"OpenParen", "Scope"} -> parse_call_fn(toks, pos)
                   [] kind2 = "Dot" /\ instance_call -> parse_call_instance_fn(toks, pos)
                   [] OTHER -> Done([node |-> "Ident", at |-> pos], pos + 1)
          [] OTHER -> Fail("ExpectedExprError", pos)

\* The inner loop of parse_expr_binary: while the operator that follows
\* binds tighter than op, it takes the right-hand side.
parse_expr_binary_rhs(toks, pos, rhs, op) ==
    IF from_token(token_peek(toks, pos))
          /\ precedence(token_peek(toks, pos)) > precedence(op)
    THEN LET nested(r) ==
                 IF ~r.ok THEN r ELSE parse_expr_binary_rhs(toks, r.pos, r.node, op)
         IN  nested(parse_expr_binary(toks, pos, rhs, precedence(token_peek(toks, pos))))
    ELSE Done(rhs, pos)

\* Expr::parse_expr_binary
parse_expr_binary(toks, pos, lhs, min_precedence) ==
    IF from_token(token_peek(toks, pos))
          /\ precedence(token_peek(toks, pos)) >= min_precedence
    THEN LET joined(r) ==
                 IF ~r.ok
                 THEN r
                 ELSE parse_expr_binary(toks, r.pos,
                                        [node |-> "ExprBinary", lhs |-> lhs,
                                         op |-> toks[pos], at |-> pos, rhs |-> r.node],
                                        min_precedence)
             rhs(r) ==
                 IF ~r.ok
                 THEN r
                 ELSE joined(parse_expr_binary_rhs(toks, r.pos, r.node, toks[pos]))
         IN  rhs(parse_primary(toks, pos + 1, TRUE))
    ELSE Done(lhs, pos)

\* Expr::parse
parse_expr(toks, pos) ==
    LET lhs(r) == IF ~r.ok THEN r ELSE parse_expr_binary(toks, r.pos, r.node, 0)
    IN  lhs(parse_primary(toks, pos, TRUE))

\* The loop of Block::parse; the result keeps the locals it ends with.
parse_block_loop(toks, pos, exprs, last_expr_with_value) ==
    IF token_peek(toks, pos) = "CloseBrace"
    THEN Done([node |-> "Locals", exprs |-> exprs, trailing_expr |-> << >>,
               last_expr_with_value |-> last_expr_with_value], pos)
    ELSE LET expr(r) ==
                 IF ~r.ok
                 THEN r
                 ELSE IF token_peek(toks, r.pos) = "SemiColon"
                 THEN parse_block_loop(toks, r.pos + 1,
                                       Append(exprs, [expr |-> r.node, semi |-> TRUE]),
                                       FALSE)
                 ELSE IF r.node.node = "While"
                 THEN parse_block_loop(toks, r.pos,
                                       Append(exprs, [expr |-> r.node, semi |-> FALSE]),
                                       FALSE)
                 ELSE IF r.node.node = "ExprIf"
                 THEN parse_block_loop(toks, r.pos,
                                       Append(exprs, [expr |-> r.node, semi |-> FALSE]),
                                       ~expr_if_is_empty(r.node))
                 ELSE Done([node |-> "Locals", exprs |-> exprs,
                            trailing_expr |-> <<r.node>>,
                            last_expr_with_value |-> FALSE], r.pos)
         IN  expr(parse_expr(toks, pos))

\* Block::parse; trailing_expr is the empty sequence for None.
parse_block(toks, pos) ==
    LET close(r, l) ==
            IF ~r.ok
            THEN r
            ELSE IF l.last_expr_with_value
            THEN Done([node |-> "Block",
                       exprs |-> SubSeq(l.exprs, 1, Len(l.exprs) - 1),
                       trailing_expr |-> <<l.exprs[Len(l.exprs)].expr>>], r.pos)
            ELSE Done([node |-> "Block", exprs |-> l.exprs,
                       trailing_expr |-> l.trailing_expr], r.pos)
        looped(r) ==
            IF ~r.ok THEN r ELSE close(parse_token(toks, r.pos, "CloseBrace"), r.node)
        open(r) == IF ~r.ok THEN r ELSE looped(parse_block_loop(toks, r.pos, << >>, FALSE))
    IN  open(parse_token(toks, pos, "OpenBrace"))

\* parse_all::<T>: the whole source is one T.
parse_all(toks, r) ==
    IF ~r.ok
    THEN r
    ELSE IF r.pos <= Len(toks)
    THEN Fail("ExpectedEof", r.pos)
    ELSE r

(* --------------------------- parsing sources --------------------------- *)

\* How many tokens a source of arbitrary tokens has.
MaxExprTokens == 3

\* How many binary operators a chain of operands and operators has.
MaxOps == 3

\* The query engine and the virtual machine as constructed.
Fresh ==
    /\ meta = {}
    /\ queue = << >>
    /\ indexed = << >>
    /\ items = << >>
    /\ names = {}
    /\ pool_items = <<ROOT>>
    /\ modules = << >>
    /\ next_id = 1
    /\ imp = IdleImport
    /\ functions = << >>
    /\ stack = << >>

\* A source handed to the parser, not parsed yet.
Source(toks) == [op |-> "source", kind |-> "Ok", tokens |-> toks]

\* What the parse of the source returned.
Parsed(op, r) ==
    [op |-> op, kind |-> IF r.ok THEN "Ok" ELSE r.error, tokens |-> res.tokens,
     node |-> r.node]

\* The sequences of at most n elements of S.
SeqsUpTo(S, n) == UNION {[1..k -> S] : k \in 0..n}

\* operand (operator operand)*: the chain of identifiers joined by `ops`.
Chain(ops) ==
    [i \in 1..(2 * Len(ops) + 1) |-> IF i % 2 = 1 THEN "Ident" ELSE ops[i \div 2]]

ExprKinds == BinOps \cup {"Ident", "NumberLiteral", "OpenParen", "CloseParen"}

\* The sources parsed as expressions: every short sequence of tokens, the
\* chains of identifiers, and 1 + 2 * 3.
ExprSources ==
    SeqsUpTo(ExprKinds, MaxExprTokens)
        \cup {Chain(ops) : ops \in SeqsUpTo(BinOps, MaxOps)}
        \cup {<<"NumberLiteral", "Plus", "NumberLiteral", "Star", "NumberLiteral">>}

InitExpr == Fresh /\ res \in {Source(toks) : toks \in ExprSources}

\* parse_all::<ast::Expr>
ParseAllExpr ==
    /\ res.op = "source"
    /\ res' = Parsed("parse_all_expr", parse_all(res.tokens, parse_expr(res.tokens, 1)))
    /\ UNCHANGED <<QueryVars, VmVars>>

NextExpr == ParseAllExpr

SpecExpr == InitExpr /\ [][NextExpr]_vars

(* C15 *)

Additive == {"Plus", "Minus"}
Multiplicative == {"Star", "Slash"}
Comparison == {"EqEq", "Neq", "Lt", "Gt", "Lte", "Gte"}

ParsedExpr == res.op = "parse_all_expr"

\* The source is a op1 b op2 c.
TwoOps(ops1, ops2) ==
    /\ ParsedExpr
    /\ Len(res.tokens) = 5
    /\ \A i \in {1, 3, 5} : res.tokens[i] \in {"Ident", "NumberLiteral"}
    /\ res.tokens[2] \in ops1
    /\ res.tokens[4] \in ops2

Operand(node, at) == node.node \in {"Ident", "NumberLiteral"} /\ node.at = at
BinaryAt(node, at) == node.node = "ExprBinary" /\ node.at = at

\* a op1 (b op2 c)
GroupsRight ==
    /\ res.kind = "Ok"
    /\ BinaryAt(res.node, 2) /\ Operand(res.node.lhs, 1)
    /\ BinaryAt(res.node.rhs, 4)
    /\ Operand(res.node.rhs.lhs, 3) /\ Operand(res.node.rhs.rhs, 5)

\* (a op1 b) op2 c
GroupsLeft ==
    /\ res.kind = "Ok"
    /\ BinaryAt(res.node, 4) /\ Operand(res.node.rhs, 5)
    /\ BinaryAt(res.node.lhs, 2)
    /\ Operand(res.node.lhs.lhs, 1) /\ Operand(res.node.lhs.rhs, 3)

\* The number an expression of number literals, + and * denotes, the
\* literal at position 2k - 1 being k.
RECURSIVE Denotes(_)
Denotes(node) ==
    IF node.node = "ExprBinary"
    THEN IF node.op = "Plus"
         THEN Denotes(node.lhs) + Denotes(node.rhs)
         ELSE Denotes(node.lhs) * Denotes(node.rhs)
    ELSE (node.at + 1) \div 2

\* No multiplication or division of the tree has an addition or
\* subtraction as an operand.
RECURSIVE TighterInside(_)
TighterInside(node) ==
    node.node = "ExprBinary" =>
        /\ TighterInside(node.lhs)
        /\ TighterInside(node.rhs)
        /\ node.op \in Multiplicative =>
               \A side \in {node.lhs, node.rhs} :
                   ~(side.node = "ExprBinary" /\ side.op \in Additive)

\* C15: without parentheses * and / bind tighter than + and -: a + b * c
\* parses as a + (b * c) and a * b + c as (a * b) + c, in a longer chain no
\* product has a sum as an operand, and 1 + 2 * 3 denotes 7.
C15_MulBindsTighter ==
    /\ TwoOps(Additive, Multiplicative) => GroupsRight
    /\ TwoOps(Multiplicative, Additive) => GroupsLeft
    /\ (ParsedExpr /\ res.tokens \in {Chain(ops) : ops \in SeqsUpTo(Additive \cup Multiplicative, MaxOps)})
           => res.kind = "Ok" /\ TighterInside(res.node)
    /\ (ParsedExpr /\ res.tokens = <<"NumberLiteral", "Plus", "NumberLiteral", "Star",
                                      "NumberLiteral">>)
           => res.kind = "Ok" /\ Denotes(res.node) = 7

\* a - b / c was parsed as a - (b / c).
C15_Witness ==
    /\ TwoOps({"Minus"}, {"Slash"})
    /\ GroupsRight
    /\ res.node.op = "Minus"
    /\ res.node.rhs.op = "Slash"

(* C16 *)

\* C16: without parentheses the comparison operators bind weaker than the
\* additive and multiplicative operators: a + b == c parses as (a + b) == c
\* and a < b * c as a < (b * c).
C16_ComparisonBindsWeaker ==
    /\ TwoOps(Additive \cup Multiplicative, Comparison) => GroupsLeft
    /\ TwoOps(Comparison, Additive \cup Multiplicative) => GroupsRight

(* C17 *)

SamePrecedence(op1, op2) ==
    \/ {op1, op2} \subseteq {"EqEq", "Neq"}
    \/ {op1, op2} \subseteq {"Lt", "Gt", "Lte", "Gte"}

\* C17: an expression that chains two comparison operators of the same
\* precedence without parentheses, as a == b == c and a < b < c do, is
\* rejected by the parser.
C17_ComparisonNonAssociative ==
    (TwoOps(Comparison, Comparison) /\ SamePrecedence(res.tokens[2], res.tokens[4]))
        => res.kind # "Ok"

(* ------------------------ comma-separated lists ------------------------ *)

\* How many tokens stand between the delimiters of a list.
MaxListTokens == 8

\* The lists: the parser of each, its delimiters and the tokens of one item.
ListForms ==
    {[list |-> "parse_all_array_literal", open |-> "OpenBracket",
      close |-> "CloseBracket", item |-> <<"Ident">>],
     [list |-> "parse_all_function_args", open |-> "OpenParen",
      close |-> "CloseParen", item |-> <<"Ident">>],
     [list |-> "parse_all_object_literal", open |-> "OpenBrace",
      close |-> "CloseBrace", item |-> <<"StringLiteral", "Colon", "StringLiteral">>],
     [list |-> "parse_all_lit_object", open |-> "StartObject",
      close |-> "CloseBrace", item |-> <<"Ident", "Colon", "Ident">>]}

\* The tokens of a list of `form`: anything made of the tokens of its items
\* and of commas, between its delimiters.
ListSources(form) ==
    {<<form.open>> \o body \o <<form.close>> :
        body \in SeqsUpTo({form.item[i] : i \in DOMAIN form.item} \cup {"Comma"},
                          MaxListTokens)}

InitList == Fresh /\ res \in {Source(toks) : toks \in UNION {ListSources(f) : f \in ListForms}}

\* parse_all::<ast::ArrayLiteral>
ParseAllArrayLiteral ==
    /\ res.op = "source"
    /\ res' = Parsed("parse_all_array_literal",
                     parse_all(res.tokens, parse_array_literal(res.tokens, 1)))
    /\ UNCHANGED <<QueryVars, VmVars>>

\* parse_all::<ast::FunctionArgs<ast::Expr>>
ParseAllFunctionArgs ==
    /\ res.op = "source"
    /\ res' = Parsed("parse_all_function_args",
                     parse_all(res.tokens, parse_function_args(res.tokens, 1)))
    /\ UNCHANGED <<QueryVars, VmVars>>

\* parse_all::<ast::ObjectLiteral>
ParseAllObjectLiteral ==
    /\ res.op = "source"
    /\ res' = Parsed("parse_all_object_literal",
                     parse_all(res.tokens, parse_object_literal(res.tokens, 1)))
    /\ UNCHANGED <<QueryVars, VmVars>>

\* parse_all::<ast::LitObject>
ParseAllLitObject ==
    /\ res.op = "source"
    /\ res' = Parsed("parse_all_lit_object",
                     parse_all(res.tokens, parse_lit_object(res.tokens, 1)))
    /\ UNCHANGED <<QueryVars, VmVars>>

NextList ==
    \/ ParseAllArrayLiteral
    \/ ParseAllFunctionArgs
    \/ ParseAllObjectLiteral
    \/ ParseAllLitObject

SpecList == InitList /\ [][NextList]_vars

\* A list was parsed by the parser of its own form.
ParsedList(form) == res.op = form.list /\ res.tokens[1] = form.open

\* What stands between the delimiters.
ListBody == SubSeq(res.tokens, 2, Len(res.tokens) - 1)

\* n items written with a comma after each one but the last, and after the last
\* one too when `trailing`.
Written(item, n, trailing) ==
    [i \in 1..(IF n = 0 THEN 0
               ELSE n * (Len(item) + 1) - (IF trailing THEN 0 ELSE 1)) |->
        IF (i - 1) % (Len(item) + 1) = Len(item)
        THEN "Comma"
        ELSE item[((i - 1) % (Len(item) + 1)) + 1]]

\* The parse of the list of `form` with `body` between its delimiters.
ListParse(form, body) ==
    LET toks == <<form.open>> \o body \o <<form.close>>
    IN  CASE form.open = "OpenBracket" -> parse_all(toks, parse_array_literal(toks, 1))
          [] form.open = "OpenParen" -> parse_all(toks, parse_function_args(toks, 1))
          [] form.open = "OpenBrace" -> parse_all(toks, parse_object_literal(toks, 1))
          [] OTHER -> parse_all(toks, parse_lit_object(toks, 1))

\* Where an item of a list starts.
ItemStart(item) == IF "key" \in DOMAIN item THEN item.key.at ELSE item.at

\* The body starts with a comma or has two commas in a row.
StrayComma(body) ==
    \/ Len(body) > 0 /\ body[1] = "Comma"
    \/ \E i \in 1..(Len(body) - 1) : body[i] = "Comma" /\ body[i + 1] = "Comma"

\* C18: a list parses exactly when its body is a sequence of items with a
\* comma between any two of them and at most one comma after the last; the
\* items it yields are the ones written, the same with and without the
\* trailing comma; the empty list is accepted and a list with a leading or a
\* doubled comma is rejected.
C18_TrailingComma ==
    \A form \in ListForms :
        ParsedList(form) =>
            /\ res.kind = "Ok" <=>
                   \E n \in 0..MaxListTokens, trailing \in BOOLEAN :
                       /\ n = 0 => ~trailing
                       /\ ListBody = Written(form.item, n, trailing)
            /\ \A n \in 0..MaxListTokens, trailing \in BOOLEAN :
                   ListBody = Written(form.item, n, trailing) /\ (n = 0 => ~trailing) =>
                       /\ Len(res.node.items) = n
                       /\ \A j \in 1..n :
                              ItemStart(res.node.items[j]) = 2 + (j - 1) * (Len(form.item) + 1)
                       /\ res.node.items
                              = ListParse(form, Written(form.item, n, FALSE)).node.items
            /\ ListBody = << >> => res.kind = "Ok" /\ res.node.items = << >>
            /\ StrayComma(ListBody) => res.kind # "Ok"

\* #{a: b, c: d,} parsed to its two items.
C18_Witness ==
    /\ res.op = "parse_all_lit_object"
    /\ res.kind = "Ok"
    /\ ListBody = Written(<<"Ident", "Colon", "Ident">>, 2, TRUE)
    /\ Len(res.node.items) = 2

(* --------------------------- string literals --------------------------- *)

\* How many fragments the content of a string literal is made of.
MaxFragments == 3

\* A character is named by a string: "BS" is the backslash, "DQ" the double
\* quote, "LF", "CR", "TAB" and "NUL" the control characters, "A" is U+0041.
\* The pieces string contents are made of: a plain character, the escape
\* sequences, a backslash before a character that is no escape, and a
\* backslash alone.
Fragments ==
    {<<"a">>, <<"BS", "n">>, <<"BS", "r">>, <<"BS", "t">>, <<"BS", "BS">>,
     <<"BS", "DQ">>, <<"BS", "0">>, <<"BS", "x", "4", "1">>,
     <<"BS", "u", "{", "4", "1", "}">>, <<"BS", "q">>, <<"BS">>}

RECURSIVE Concat(_)
\* The characters of a sequence of fragments.
Concat(fragments) ==
    IF fragments = << >> THEN << >> ELSE Head(fragments) \o Concat(Tail(fragments))

\* Span::narrow
narrow(span, amount) == [start |-> span.start + amount, end |-> span.end - amount]

\* Source::source: the characters of the span.
source_of(chars, span) == SubSeq(chars, span.start + 1, span.end)

\* The flag of Kind::StringLiteral: the literal has a backslash in it.
lex_escaped(chars) == \E i \in DOMAIN chars : chars[i] = "BS"

RECURSIVE parse_escaped(_, _, _, _)
\* StringLiteral::parse_escaped, from the i-th character on.
parse_escaped(span, source, i, buffer) ==
    IF i > Len(source)
    THEN [ok |-> TRUE, string |-> buffer]
    ELSE LET c == source[i]
             next == IF i + 1 <= Len(source) THEN source[i + 1] ELSE "None"
         IN  CASE c = "BS" /\ next = "n" ->
                      parse_escaped(span, source, i + 2, Append(buffer, "LF"))
               [] c = "BS" /\ next = "r" ->
                      parse_escaped(span, source, i + 2, Append(buffer, "CR"))
               [] c = "BS" /\ next = "DQ" ->
                      parse_escaped(span, source, i + 2, Append(buffer, "DQ"))
               [] c = "BS" /\ next \notin {"n", "r", "DQ"} ->
                      [ok |-> FALSE, error |-> "BadStringEscapeSequence",
                       c |-> IF next = "None" THEN "NUL" ELSE next, span |-> span]
               [] OTHER -> parse_escaped(span, source, i + 1, Append(buffer, c))

\* <StringLiteral as Resolve>::resolve
resolve(span, escaped, chars) ==
    IF escaped
    THEN parse_escaped(span, source_of(chars, narrow(span, 1)), 1, << >>)
    ELSE [ok |-> TRUE, string |-> source_of(chars, narrow(span, 1))]

\* The source texts of the string literals, between their quotes.
StringSources ==
    {<<"DQ">> \o Concat(fragments) \o <<"DQ">> :
        fragments \in SeqsUpTo(Fragments, MaxFragments)}

\* The source of one string literal token.
StringSource(chars) ==
    [op |-> "source", kind |-> "Ok", tokens |-> <<"StringLiteral">>, chars |-> chars,
     span |-> [start |-> 0, end |-> Len(chars)],
     escaped |-> lex_escaped(chars)]

InitString == Fresh /\ res \in {StringSource(chars) : chars \in StringSources}

\* parse_all::<ast::StringLiteral> and item.resolve(source)
ResolveStringLiteral ==
    /\ res.op = "source"
    /\ LET resolved(r) ==
               [op |-> "resolve", kind |-> IF r.ok THEN "Ok" ELSE r.error,
                chars |-> res.chars, span |-> res.span, escaped |-> res.escaped,
                result |-> r]
       IN  res' = resolved(resolve(res.span, res.escaped, res.chars))
    /\ UNCHANGED <<QueryVars, VmVars>>

NextString == ResolveStringLiteral

SpecString == InitString /\ [][NextString]_vars

\* The hexadecimal digits of the sources.
HexDigits == {"0", "4", "1"}

\* The character an escape sequence at the i-th character denotes and how wide
\* the sequence is; width 0 when no escape sequence starts there.
Escape(content, i) ==
    LET at(k) == IF i + k <= Len(content) THEN content[i + k] ELSE "None"
    IN  CASE at(1) = "n" -> [width |-> 2, char |-> "LF"]
          [] at(1) = "r" -> [width |-> 2, char |-> "CR"]
          [] at(1) = "t" -> [width |-> 2, char |-> "TAB"]
          [] at(1) = "BS" -> [width |-> 2, char |-> "BS"]
          [] at(1) = "DQ" -> [width |-> 2, char |-> "DQ"]
          [] at(1) = "0" -> [width |-> 2, char |-> "NUL"]
          [] at(1) = "x" /\ at(2) = "4" /\ at(3) = "1" -> [width |-> 4, char |-> "A"]
          [] at(1) = "u" /\ at(2) = "{" /\ at(3) = "4" /\ at(4) = "1" /\ at(5) = "}" ->
                 [width |-> 6, char |-> "A"]
          [] OTHER -> [width |-> 0, char |-> "None"]

RECURSIVE Unescaped(_, _)
\* The characters the content denotes from the i-th character on; <<"Bad">>
\* in front of the rest when a backslash starts no escape sequence.
Unescaped(content, i) ==
    IF i > Len(content)
    THEN << >>
    ELSE IF content[i] # "BS"
    THEN <<content[i]>> \o Unescaped(content, i + 1)
    ELSE IF Escape(content, i).width = 0
    THEN <<"Bad">>
    ELSE <<Escape(content, i).char>> \o Unescaped(content, i + Escape(content, i).width)

\* The literal between its quotes.
StringContent == SubSeq(res.chars, 2, Len(res.chars) - 1)

\* C19: resolving an escaped string literal replaces each of the escape
\* sequences \n, \r, \t, \\, \", \0, \xNN and \u{...} by the character it
\* denotes and reports any other backslash sequence, a backslash at the end
\* included, as a bad escape with the span of the literal; an unescaped
\* literal resolves to its source text without the quotes.
C19_EscapesResolved ==
    res.op = "resolve" =>
        IF ~res.escaped
        THEN res.kind = "Ok" /\ res.result.string = StringContent
        ELSE IF \E i \in 1..Len(Unescaped(StringContent, 1)) :
                    Unescaped(StringContent, 1)[i] = "Bad"
        THEN res.kind = "BadStringEscapeSequence" /\ res.result.span = res.span
        ELSE res.kind = "Ok" /\ res.result.string = Unescaped(StringContent, 1)

(* -------------------------------- blocks ------------------------------- *)

\* How many expressions and semicolons are written in a block.
MaxWritten == 4

\* What is written in a block: an identifier, a let, an if without and with
\* an else, a while, a block, each with an empty body, and the semicolon.
WrittenKinds == {"expr", "let", "if", "if_else", "while", "block", "semi"}

\* The tokens of what is written.
WrittenTokens(kind) ==
    CASE kind = "expr" -> <<"Ident">>
      [] kind = "let" -> <<"Let", "Ident", "Eq", "NumberLiteral">>
      [] kind = "if" -> <<"If", "Ident", "OpenBrace", "CloseBrace">>
      [] kind = "if_else" -> <<"If", "Ident", "OpenBrace", "CloseBrace",
                               "Else", "OpenBrace", "CloseBrace">>
      [] kind = "while" -> <<"While", "Ident", "OpenBrace", "CloseBrace">>
      [] kind = "block" -> <<"OpenBrace", "CloseBrace">>
      [] OTHER -> <<"SemiColon">>

\* The source of the block in which `written` is written.
BlockSource(written) ==
    [op |-> "source", kind |-> "Ok",
     tokens |-> <<"OpenBrace">>
                    \o Concat([i \in DOMAIN written |-> WrittenTokens(written[i])])
                    \o <<"CloseBrace">>,
     written |-> written]

InitBlock ==
    Fresh /\ res \in {BlockSource(written) : written \in SeqsUpTo(WrittenKinds, MaxWritten)}

\* parse_all::<ast::Block>
ParseAllBlock ==
    /\ res.op = "source"
    /\ LET parsed(r) ==
               [op |-> "parse_all_block", kind |-> IF r.ok THEN "Ok" ELSE r.error,
                tokens |-> res.tokens, written |-> res.written, node |-> r.node]
       IN  res' = parsed(parse_all(res.tokens, parse_block(res.tokens, 1)))
    /\ UNCHANGED <<QueryVars, VmVars>>

NextBlock == ParseAllBlock

SpecBlock == InitBlock /\ [][NextBlock]_vars

\* The expressions whose block form needs no semicolon after it.
BlockForms == {"if", "if_else", "while", "block"}

\* Every semicolon written terminates an expression.
SemiColonsPlaced(written) ==
    \A i \in DOMAIN written :
        written[i] = "semi" => i > 1 /\ written[i - 1] # "semi"

\* The expressions written.
Expressions(written) == {i \in DOMAIN written : written[i] # "semi"}

\* The i-th thing written is an expression followed by a semicolon.
Terminated(written, i) == i < Len(written) /\ written[i + 1] = "semi"

\* Only the last expression, or an expression in block form, goes without a
\* semicolon.
Separated(written) ==
    \A i \in Expressions(written) :
        written[i] \notin BlockForms /\ ~Terminated(written, i) => i = Len(written)

\* The last thing written is the value of the block.
EndsWithValue(written) ==
    /\ written # << >>
    /\ written[Len(written)] \in {"expr", "let", "if_else", "block"}

\* C20: in a block an expression in block form (if, while, block) may be
\* followed by a further statement without a semicolon between them, and any
\* other expression not followed by a semicolon must be the last one; the
\* last expression is the trailing expression when no semicolon follows it
\* and it is not a while or an if without else, and every other expression
\* is a statement.
C20_BlockStatements ==
    res.op = "parse_all_block" /\ SemiColonsPlaced(res.written) =>
        /\ res.kind = "Ok" <=> Separated(res.written)
        /\ res.kind = "Ok" =>
               IF EndsWithValue(res.written)
               THEN /\ Len(res.node.trailing_expr) = 1
                    /\ Len(res.node.exprs) = Cardinality(Expressions(res.written)) - 1
               ELSE /\ res.node.trailing_expr = << >>
                    /\ Len(res.node.exprs) = Cardinality(Expressions(res.written))

(* ------------------------- the items by their id ----------------------- *)

\* How many ids Items::id hands to insert_new_item.
MaxItemIds == 2

\* Query::insert_new_item: the ItemMeta of the declaration `name` of the
\* module is recorded under `id`, the id of the Items the indexer holds.  res
\* also keeps the items recorded before the call.
InsertNewItem(id, module, name, visibility) ==
    /\ Idle
    /\ module \in ModIds
    /\ LET item == module_item(module) \o <<name>>
           item_meta == [id |-> id, item |-> item, module |-> module,
                         visibility |-> visibility]
       IN  /\ pool_items' = pool_alloc(pool_items, item)
           /\ items' = insert_new_item_with(items, item_meta)
           /\ res' = [op |-> "insert_new_item", kind |-> "Ok", item_meta |-> item_meta,
                      items |-> items]
    /\ UNCHANGED <<meta, queue, indexed, names, modules, next_id, imp, functions, stack>>

\* Query::item_for
ItemFor(id) ==
    /\ Idle
    /\ res' = IF HasItemFor(id)
              THEN [op |-> "item_for", kind |-> "Ok", id |-> id,
                    item_meta |-> item_for(id)]
              ELSE [op |-> "item_for", kind |-> "MissingId", id |-> id,
                    item_meta |-> NoEntry.item_meta]
    /\ UNCHANGED <<meta, queue, indexed, items, names, pool_items, modules, next_id, imp,
                   functions, stack>>

NextItems ==
    \/ InsertRootMod
    \/ \E id \in 1..MaxItemIds, name \in {"a", "b"}, visibility \in {"Public", "Inherited"} :
            InsertNewItem(id, 1, name, visibility)
    \/ \E id \in 1..MaxItemIds : ItemFor(id)

SpecItems == Init /\ [][NextItems]_vars

\* The id or the item of the ItemMeta is already recorded.
AlreadyInserted(its, item_meta) ==
    \/ item_meta.id \in DOMAIN its
    \/ \E id \in DOMAIN its : its[id].item = item_meta.item

\* C21: insert_new_item of an id or of an item that was inserted before
\* returns an error and leaves the recorded ItemMeta in place.
C21_InsertNewItemUnique ==
    [][res'.op = "insert_new_item" /\ AlreadyInserted(items, res'.item_meta)
          => res'.kind # "Ok" /\ items' = items]_vars

(* C22 *)

\* The entries indexed under the item, none when the map has no such key.
EntriesOf(ix, item) == IF item \in DOMAIN ix THEN ix[item] ELSE << >>

\* C22: index(entry) appends the entry to the entries indexed under its item
\* and records the name of the item; the entries indexed before, under this
\* item and under every other one, the meta cache and the build queue stay
\* as they were.
C22_IndexAppends ==
    [][res'.op = "index" =>
          /\ DOMAIN indexed' = DOMAIN indexed \cup {res'.item}
          /\ Len(indexed'[res'.item]) = Len(EntriesOf(indexed, res'.item)) + 1
          /\ SubSeq(indexed'[res'.item], 1, Len(EntriesOf(indexed, res'.item)))
                 = EntriesOf(indexed, res'.item)
          /\ indexed'[res'.item][Len(indexed'[res'.item])].item_meta.item = res'.item
          /\ \A k \in DOMAIN indexed \ {res'.item} : indexed'[k] = indexed[k]
          /\ names' = names \cup {res'.item}
          /\ meta' = meta
          /\ queue' = queue]_vars

\* An entry was indexed under an item that had one already, with a Meta
\* cached and a build entry queued.
C22_Witness ==
    /\ res.op = "index"
    /\ Len(indexed[res.item]) >= 2
    /\ meta # {}
    /\ queue # << >>

(* C23 *)

\* C23: no item has a Meta cached under (item, Hash::EMPTY) while entries of
\* it remain in the indexed map, and the debug_assert! of the cached branch
\* of query_meta never fails.
C23_CachedNotIndexed ==
    /\ \A item \in DOMAIN indexed : ~HasMeta(meta, item, HashEMPTY)
    /\ res.kind # "Panic"

(* ---------------------------- the module tree -------------------------- *)

\* The indexer inserts the root module and modules nested in it.
NextModules ==
    \/ InsertRootMod
    \/ \E parent \in 1..MaxAccessMods, inner \in BOOLEAN, name \in {"a", "b"},
          v \in AccessVis :
          InsertModAt(parent, inner, name, v)

SpecModules == Init /\ [][NextModules]_vars

RECURSIVE ReachesRoot(_, _)
\* Following the parent links from the module `mod` ends at a module without
\* parent and meets no module of `seen`, nor any module twice.
ReachesRoot(mod, seen) ==
    /\ mod \notin seen
    /\ (modules[mod].parent # 0 =>
           /\ modules[mod].parent \in ModIds
           /\ ReachesRoot(modules[mod].parent, seen \cup {mod}))

\* C24: the module without parent is the one insert_root_mod made, with the
\* item ROOT and public; every other module has one parent, a module
\* allocated before it; the parent links from any module lead to the root
\* without meeting a module twice.
C24_ModulesFormTree ==
    \A mod \in ModIds :
        /\ modules[mod].parent = 0 =>
               modules[mod].item = ROOT /\ modules[mod].visibility = "Public"
        /\ modules[mod].parent # 0 => modules[mod].parent \in 1..(mod - 1)
        /\ modules[mod].parent = 0 <=> mod = 1
        /\ ReachesRoot(mod, {})

\* A module nested in a module nested in the root.
C24_Witness ==
    /\ Len(modules) = 3
    /\ modules[3].parent = 2
    /\ modules[2].parent = 1
    /\ res.op = "insert_mod"

(* --------------------------- boolean literals -------------------------- *)

\* The largest offset at which a token of a source starts.
MaxSpanStart == 2

\* A to_tokens that emits the token `true` whatever the value is.
lit_bool_to_tokens_true(lit, stream) ==
    Append(stream, [span |-> lit.span, kind |-> "True"])

\* <LitBool as Parse>::parse over tokens that carry their kind and span.
lit_bool_parse(toks, pos) ==
    IF pos > Len(toks)
    THEN Fail("UnexpectedEof", pos)
    ELSE IF toks[pos].kind \in {"True", "False"}
    THEN Done([node |-> "LitBool", span |-> toks[pos].span,
               value |-> toks[pos].kind = "True"], pos + 1)
    ELSE Fail("ExpectedBoolean", pos)

\* <LitBool as ToTokens>::to_tokens
lit_bool_to_tokens(lit, stream) ==
    Append(stream, [span |-> lit.span, kind |-> IF lit.value THEN "True" ELSE "False"])

\* The tokens a source may hold: true, false and two that are no booleans,
\* at their spans.
BoolTokens ==
    {[kind |-> k, span |-> [start |-> s, end |-> s + w]] :
        k \in {"True", "False", "Ident", "NumberLiteral"},
        s \in 0..MaxSpanStart, w \in {4, 5}}

InitBool == Fresh /\ res \in {Source(toks) : toks \in SeqsUpTo(BoolTokens, 2)}

\* parser.parse::<ast::LitBool>()
ParseLitBool ==
    /\ res.op = "source"
    /\ res' = Parsed("parse_lit_bool", lit_bool_parse(res.tokens, 1))
    /\ UNCHANGED <<QueryVars, VmVars>>

\* The literal parsed is turned into tokens again, into an empty stream.
LitBoolToTokens ==
    /\ res.op = "parse_lit_bool"
    /\ res.kind = "Ok"
    /\ res' = [op |-> "to_tokens", kind |-> "Ok", tokens |-> res.tokens,
               node |-> res.node, stream |-> lit_bool_to_tokens(res.node, << >>)]
    /\ UNCHANGED <<QueryVars, VmVars>>

NextBool ==
    \/ ParseLitBool
    \/ LitBoolToTokens

SpecBool == InitBool /\ [][NextBool]_vars

\* C25: the token true or false parses to the LitBool of that value and of
\* the span of the token, and to_tokens emits exactly the token consumed; any
\* other token is rejected as not a boolean.
C25_LitBoolRoundTrip ==
    /\ res.op = "parse_lit_bool" /\ res.tokens # << >> =>
           IF res.tokens[1].kind \in {"True", "False"}
           THEN /\ res.kind = "Ok"
                /\ res.node.value = (res.tokens[1].kind = "True")
                /\ res.node.span = res.tokens[1].span
           ELSE res.kind = "ExpectedBoolean"
    /\ res.op = "to_tokens" => res.stream = <<res.tokens[1]>>

\* false, not at the start of the source and before another token, went
\* through parse and to_tokens.
C25_Witness ==
    /\ res.op = "to_tokens"
    /\ res.stream[1].kind = "False"
    /\ res.stream[1].span.start > 0
    /\ Len(res.tokens) = 2

(* --------------------------- number literals --------------------------- *)

\* How many bits the integers of the model have: the width of the i64 of
\* the program, scaled down.
IntBits == 4

\* How many characters follow the prefix of a number literal.
MaxDigits == 4

\* i64::MAX at the width of the model.
INT_MAX == 2 ^ (IntBits - 1) - 1

\* char::to_digit: the value of a character as a digit, 36 for a character
\* that is a digit in no radix.
DigitValue(c) ==
    CASE c = "0" -> 0
      [] c = "1" -> 1
      [] c = "7" -> 7
      [] c = "9" -> 9
      [] c = "f" -> 15
      [] OTHER -> 36

RECURSIVE from_str_radix_loop(_, _, _, _)
\* The loop of i64::from_str_radix over the digits: checked_mul by the
\* radix, then checked_add of the digit.
from_str_radix_loop(src, radix, i, result) ==
    IF i > Len(src)
    THEN [ok |-> TRUE, number |-> result]
    ELSE IF DigitValue(src[i]) >= radix
    THEN [ok |-> FALSE, error |-> "InvalidDigit"]
    ELSE IF result * radix > INT_MAX
    THEN [ok |-> FALSE, error |-> "PosOverflow"]
    ELSE IF result * radix + DigitValue(src[i]) > INT_MAX
    THEN [ok |-> FALSE, error |-> "PosOverflow"]
    ELSE from_str_radix_loop(src, radix, i + 1, result * radix + DigitValue(src[i]))

\* i64::from_str_radix of a text without sign.
from_str_radix(src, radix) ==
    IF src = << >>
    THEN [ok |-> FALSE, error |-> "Empty"]
    ELSE from_str_radix_loop(src, radix, 1, 0)

\* .map_err(err_span(self.token.span)) and Ok(Number::Integer(number))
err_span(r, span) ==
    IF r.ok
    THEN [ok |-> TRUE, number |-> r.number]
    ELSE [ok |-> FALSE, error |-> "IllegalNumberLiteral", span |-> span]

\* A resolve that reads the whole text of every literal in radix 10.
number_resolve_decimal(number, span, chars) ==
    err_span(from_str_radix(source_of(chars, span), 10), span)

\* <NumberLiteral as Resolve>::resolve
number_resolve(number, span, chars) ==
    LET string == source_of(chars, span)
    IN  CASE number = "Binary" ->
                 err_span(from_str_radix(SubSeq(string, 3, Len(string)), 2), span)
          [] number = "Octal" ->
                 err_span(from_str_radix(SubSeq(string, 3, Len(string)), 8), span)
          [] number = "Hex" ->
                 err_span(from_str_radix(SubSeq(string, 3, Len(string)), 16), span)
          [] OTHER -> err_span(from_str_radix(string, 10), span)

\* The prefix of the literals of a kind.
NumberPrefix(number) ==
    CASE number = "Binary" -> <<"0", "b">>
      [] number = "Octal" -> <<"0", "o">>
      [] number = "Hex" -> <<"0", "x">>
      [] OTHER -> << >>

\* The characters the lexer takes into a number literal.
DigitChars == {"0", "1", "7", "9", "f", "g"}

\* What follows the prefix in the literals of a kind; a decimal literal
\* starts with a decimal digit.
NumberTexts(number) ==
    IF number = "Decimal"
    THEN {digits \in SeqsUpTo(DigitChars, MaxDigits) :
              digits # << >> /\ DigitValue(digits[1]) < 10}
    ELSE SeqsUpTo(DigitChars, MaxDigits)

\* The source of one number literal token.
NumberSource(number, chars) ==
    [op |-> "source", kind |-> "Ok", tokens |-> <<"NumberLiteral">>, number |-> number,
     chars |-> chars, span |-> [start |-> 0, end |-> Len(chars)]]

NumberSources ==
    UNION {{NumberSource(number, NumberPrefix(number) \o digits) :
               digits \in NumberTexts(number)} :
              number \in {"Binary", "Octal", "Hex", "Decimal"}}

InitNumber == Fresh /\ res \in NumberSources

\* parse_all::<ast::NumberLiteral> and item.resolve(source)
ResolveNumberLiteral ==
    /\ res.op = "source"
    /\ LET resolved(r) ==
               [op |-> "resolve_number", kind |-> IF r.ok THEN "Ok" ELSE r.error,
                number |-> res.number, chars |-> res.chars, span |-> res.span,
                result |-> r]
       IN  res' = resolved(number_resolve(res.number, res.span, res.chars))
    /\ UNCHANGED <<QueryVars, VmVars>>

NextNumber == ResolveNumberLiteral

SpecNumber == InitNumber /\ [][NextNumber]_vars

\* The radix of a kind.
RadixOf(number) ==
    CASE number = "Binary" -> 2 [] number = "Octal" -> 8 [] number = "Hex" -> 16
      [] OTHER -> 10

\* The digits of the literal: what follows its prefix.
DigitsOf(r) == SubSeq(r.chars, Len(NumberPrefix(r.number)) + 1, Len(r.chars))

RECURSIVE ValueOf(_, _)
\* The number the digits denote in the radix.
ValueOf(digits, radix) ==
    IF digits = << >>
    THEN 0
    ELSE ValueOf(SubSeq(digits, 1, Len(digits) - 1), radix) * radix
             + DigitValue(digits[Len(digits)])

\* C26: an integer literal resolves to the value of its digits in the radix
\* of its kind, read after the prefix for binary, octal and hexadecimal; when
\* it has no digits, a character that is no digit of the radix, or a value
\* above the largest signed integer, the result is IllegalNumberLiteral with
\* the span of the literal.
C26_IntegerResolves ==
    res.op = "resolve_number" =>
        IF /\ DigitsOf(res) # << >>
           /\ \A i \in DOMAIN DigitsOf(res) : DigitValue(DigitsOf(res)[i]) < RadixOf(res.number)
           /\ ValueOf(DigitsOf(res), RadixOf(res.number)) <= INT_MAX
        THEN res.kind = "Ok"
                 /\ res.result.number = ValueOf(DigitsOf(res), RadixOf(res.number))
        ELSE res.kind = "IllegalNumberLiteral" /\ res.result.span = res.span

\* A binary literal one above the largest integer was rejected.
C26_Witness ==
    /\ res.op = "resolve_number"
    /\ res.number = "Binary"
    /\ \A i \in DOMAIN DigitsOf(res) : DigitValue(DigitsOf(res)[i]) < 2
    /\ ValueOf(DigitsOf(res), 2) = INT_MAX + 1
    /\ res.kind = "IllegalNumberLiteral"

(* C27 *)

\* The last call returned Ok(value).
ReturnedOk(r, value) == r.op = "queue_unused_entries" /\ r.kind = "Ok" /\ r.value = value

ImportStep(module, item, used, path) ==
    /\ Idle
    /\ module \in ModIds
    /\ LET returned(r) ==
               /\ Commit(r.q)
               /\ res' = [op |-> "import_step", kind |-> r.kind, item |-> item,
                          module |-> module, used |-> used, some |-> r.some,
                          import |-> r.import, chain |-> r.chain,
                          cached |-> HasMeta(meta, item, HashEMPTY),
                          entries |-> EntriesOf(indexed, item),
                          meta |-> meta, queue |-> queue, unit |-> r.q.unit]
       IN  returned(import_step(alloc_item(QState(FALSE), item), module, item, used,
                                path))
    /\ UNCHANGED imp

\* The items declared: the module a, the function or struct a::f, b.
StepItems == {<<"a">>, <<"b">>, <<"a", "f">>}

\* The module a with a declaration f, a declaration b and an import b of
\* a::f in the root; import_step, query_meta and the drain at any time.
NextStep ==
    \/ InsertRootMod
    \/ InsertMod(1, "a", "Public")
    \/ \E kind \in {"Function", "Struct"}, v \in {"Public", "Inherited"} :
            IndexItem(2, "f", kind, v)
    \/ IndexItem(1, "b", "Function", "Public")
    \/ \E w \in BOOLEAN : InsertImport(1, "Public", ROOT, <<"a", "f">>, "b", w)
    \/ \E module \in {1, 2}, item \in StepItems, used \in Useds :
            ImportStep(module, item, used, << >>)
    \/ \E item \in StepItems, debug \in BOOLEAN : QueryMeta(item, "Used", debug)
    \/ \E debug \in BOOLEAN : QueueUnusedEntries(debug)

SpecStep == Init /\ [][NextStep]_vars

(* C28 *)

\* The errors of a resolution: of remove_indexed and of check_access_to.
ResolutionErrors == {"AmbiguousItem", "NotVisible", "NotVisibleMod", "MissingMod"}

\* The operations that resolve an item through remove_indexed.
Resolving(r) == r.op \in {"import_step", "query_meta"}

\* The entries indexed under the item are ones remove_indexed reports as
\* ambiguous.
Ambiguous(item) ==
    item \in DOMAIN indexed /\ remove_indexed(QState(FALSE), item).kind = "AmbiguousItem"

\* C28: when remove_indexed reports AmbiguousItem, or check_access_to rejects
\* the entry in import_step, the entries of the item have left the indexed
\* map and no Meta is cached for the item; import_step or query_meta called
\* again for the item returns Ok(None).
C28_FailureConsumesEntry ==
    [][/\ Resolving(res') /\ res'.kind \in ResolutionErrors =>
              /\ res'.item \notin DOMAIN indexed'
              /\ ~HasMeta(meta', res'.item, HashEMPTY)
       /\ res'.op = "queue_unused_entries" /\ res'.kind = "AmbiguousItem" =>
              \A item \in DOMAIN indexed \ DOMAIN indexed' :
                  Ambiguous(item) => ~HasMeta(meta', item, HashEMPTY)
       /\ (/\ Resolving(res) /\ res.kind \in ResolutionErrors
           /\ Resolving(res') /\ res'.item = res.item) =>
              res'.kind = "Ok" /\ ~res'.some]_vars

(* ----------------------- the build entries by kind --------------------- *)

\* The declarations indexed while their kinds are told apart.
MaxDecls == 4

\* The kinds of Indexed but Import and Variant.
DeclKinds == {"Function", "InstanceFunction", "Closure", "AsyncBlock", "Const",
              "ConstFn", "Enum", "Struct", "Module"}

\* The id is the one of an enum: its entry is indexed or its Meta cached.
IsEnum(id) ==
    /\ HasItemFor(id)
    /\ LET item == item_for(id).item
       IN  \/ \E i \in 1..Len(EntriesOf(indexed, item)) :
                  /\ indexed[item][i].item_meta.id = id
                  /\ indexed[item][i].indexed.kind = "Enum"
           \/ /\ HasMeta(meta, item, HashEMPTY)
              /\ GetMeta(meta, item, HashEMPTY).kind = "Enum"
              /\ GetMeta(meta, item, HashEMPTY).item_meta.id = id

\* The indexer records a declaration of the root module with its Indexed:
\* insert_new_item for its ItemMeta, then index().
IndexDecl(name, kind, enum_id) ==
    /\ Idle
    /\ 1 \in ModIds
    /\ next_id <= MaxDecls
    /\ kind = "Variant" => enum_id = 0 \/ IsEnum(enum_id)
    /\ LET item == module_item(1) \o <<name>>
           item_meta == [id |-> next_id, item |-> item, module |-> 1,
                         visibility |-> "Public"]
           entry == [item_meta |-> item_meta,
                     indexed |-> [NoEntry.indexed EXCEPT !.kind = kind,
                                                         !.enum_id = enum_id]]
       IN  /\ next_id' = next_id + 1
           /\ pool_items' = pool_alloc(pool_items, item)
           /\ items' = insert_new_item_with(items, item_meta)
           /\ names' = insert_name(names, item)
           /\ indexed' = index(indexed, entry)
           /\ res' = [op |-> "index", kind |-> "Ok", item |-> item]
    /\ UNCHANGED <<meta, queue, modules, imp, functions, stack>>

\* Declarations of every kind named a, the variants b of an enum or of an
\* id no item was inserted for (0), an import a of b; query_meta for both
\* with either flag.
NextKinds ==
    \/ InsertRootMod
    \/ \E kind \in DeclKinds : IndexDecl("a", kind, 0)
    \/ \E enum_id \in 0..MaxDecls : IndexDecl("b", "Variant", enum_id)
    \/ \E w \in BOOLEAN : InsertImport(1, "Inherited", ROOT, <<"b">>, "a", w)
    \/ \E item \in {<<"a">>, <<"b">>}, used \in Useds : QueryMeta(item, used, FALSE)

SpecKinds == Init /\ [][NextKinds]_vars

(* C29 *)

\* The build entries that the arm of build_indexed_entry for the kind of
\* the entry pushes.
Enqueues(entry, used) ==
    LET kind == entry.indexed.kind
        one(build) == <<BuildEntry(entry.item_meta, build, used)>>
    IN  IF kind \in {"Function", "InstanceFunction", "Closure", "AsyncBlock"}
        THEN one(kind)
        ELSE IF kind \in {"Const", "ConstFn"}
        THEN IF used = "Unused" THEN one("Unused") ELSE << >>
        ELSE IF kind = "Import"
        THEN IF entry.indexed.wildcard THEN << >> ELSE one("Import")
        ELSE << >>

\* query_meta for an item with no cached Meta took an entry out of the
\* indexed map and built it.
Built(r) ==
    /\ r.op = "query_meta" /\ ~r.cached
    /\ remove_indexed(QState(FALSE), r.item).kind = "Ok"
    /\ remove_indexed(QState(FALSE), r.item).some

\* The entry built and the state it was built in.
BuiltEntry(r) == remove_indexed(QState(FALSE), r.item).entry
BuiltIn(r) == remove_indexed(QState(FALSE), r.item).q

\* What the build of a variant appends by querying the Meta of its enum:
\* the entries of the entry indexed under the item of the enum, if that is
\* built now.
EnqueuesOfEnum(q, entry) ==
    IF ~HasItemFor(entry.indexed.enum_id)
    THEN << >>
    ELSE LET item == item_for(entry.indexed.enum_id).item
             removed == remove_indexed(q, item)
         IN  IF ~HasMeta(q.meta, item, HashEMPTY) /\ removed.kind = "Ok" /\ removed.some
             THEN Enqueues(removed.entry, UsedDefault)
             ELSE << >>

\* The entries the step appended to the queue.
Enqueued == SubSeq(queue', Len(queue) + 1, Len(queue'))

Stepped(r) ==
    /\ r.op = "import_step" /\ r.kind = "Ok" /\ ~r.cached
    /\ remove_indexed(QState(FALSE), r.item).some

\* The Meta import_step caches for an import entry.
ImportMeta(entry) ==
    [item_meta |-> entry.item_meta, kind |-> "Import", parameters |-> HashEMPTY,
     hash |-> entry.item_meta.item, import |-> entry.indexed.import,
     enum_hash |-> ROOT, source |-> FALSE]

\* C30: import_step for an item with no cached Meta whose indexed entry is an
\* import caches the import as Import meta and returns it, and enqueues
\* nothing; for an entry that is not an import it builds the entry, inserts
\* its Meta into the unit and the cache, enqueues its build entry with the
\* used flag of the caller and returns None; for an item with a cached Meta
\* it returns the import when the Meta is an Import and None otherwise, and
\* changes no state.
C30_ImportStepCases ==
    [][/\ Stepped(res') /\ IsImport(BuiltEntry(res')) =>
              /\ res'.some /\ res'.import = BuiltEntry(res').indexed.import
              /\ meta' = meta \cup {ImportMeta(BuiltEntry(res'))}
              /\ queue' = queue
              /\ res'.unit = << >>
       /\ Stepped(res') /\ ~IsImport(BuiltEntry(res')) =>
              /\ ~res'.some
              /\ \E m \in meta' :
                     /\ meta' = meta \cup {m} /\ m \notin meta
                     /\ m.item_meta = BuiltEntry(res').item_meta
                     /\ m.kind = BuiltEntry(res').indexed.kind
                     /\ res'.unit = <<m>>
              /\ queue' = queue \o Enqueues(BuiltEntry(res'), res'.used)
       /\ res'.op = "import_step" /\ res'.cached =>
              /\ res'.kind = "Ok"
              /\ res'.some = (GetMeta(meta, res'.item, HashEMPTY).kind = "Import")
              /\ res'.some => res'.import = GetMeta(meta, res'.item, HashEMPTY).import
              /\ meta' = meta /\ queue' = queue /\ indexed' = indexed
              /\ next_id' = next_id /\ res'.unit = << >>]_vars

\* import_step found the import b of a::f indexed and cached it, after a
\* call for a::f built the function for a caller that passed Unused.
C30_Witness ==
    /\ res.op = "import_step" /\ res.kind = "Ok" /\ ~res.cached /\ res.some
    /\ res.item = <<"b">>
    /\ HasMeta(meta, <<"b">>, HashEMPTY)
    /\ GetMeta(meta, <<"b">>, HashEMPTY).kind = "Import"
    /\ \E i \in 1..Len(queue) :
           /\ queue[i].build = "Function" /\ queue[i].used = "Unused"
           /\ queue[i].item_meta.item = <<"a", "f">>

(* C31 *)

\* query_meta for an item with no cached Meta took a Variant entry out of
\* the indexed map and built it.
BuiltVariant(r) == Built(r) /\ BuiltEntry(r).indexed.kind = "Variant"

\* The item of the enum of the variant; ROOT when no item was inserted for
\* the id.
EnumItem(entry) ==
    IF HasItemFor(entry.indexed.enum_id)
    THEN item_for(entry.indexed.enum_id).item
    ELSE ROOT

\* The enum of the variant cannot be found: no item for its id, or neither a
\* cached Meta nor an indexed entry for its item.
EnumMissing(entry) ==
    \/ ~HasItemFor(entry.indexed.enum_id)
    \/ /\ ~HasMeta(meta, EnumItem(entry), HashEMPTY)
       /\ EnumItem(entry) \notin DOMAIN indexed

\* C31: after a successful build of a Variant entry the Meta of its enum is
\* in the cache, built as used whatever flag the variant is built with, and
\* the enum_hash of the variant is the hash of that Meta; when the id or the
\* Meta of the enum cannot be found the build fails, and a failed build
\* caches no Meta for the variant.
C31_VariantBuildsEnum ==
    [][BuiltVariant(res') =>
          /\ res'.kind = "Ok" =>
                 /\ res'.some /\ res'.meta.kind = "Variant"
                 /\ HasItemFor(BuiltEntry(res').indexed.enum_id)
                 /\ HasMeta(meta', EnumItem(BuiltEntry(res')), HashEMPTY)
                 /\ GetMeta(meta', EnumItem(BuiltEntry(res')), HashEMPTY).kind = "Enum"
                 /\ res'.meta.enum_hash =
                        GetMeta(meta', EnumItem(BuiltEntry(res')), HashEMPTY).hash
                 /\ \A i \in 1..Len(Enqueued) : Enqueued[i].used = "Used"
          /\ EnumMissing(BuiltEntry(res')) => res'.kind # "Ok"
          /\ res'.kind # "Ok" => ~HasMeta(meta', res'.item, HashEMPTY)]_vars

(* ------------------------------ use items ------------------------------ *)

\* The targets of the imports declared: none, one component, two.
UseTargets == {ROOT, <<"b">>, <<"a", "b">>}

\* The module a, public or not, and imports declared in the root or in a,
\* at the item of either, with and without an alias, of every target.
NextUse ==
    \/ InsertRootMod
    \/ \E v \in {"Public", "Inherited"} : InsertMod(1, "a", v)
    \/ \E module \in {1, 2}, v \in {"Public", "Inherited"}, at \in {ROOT, <<"a">>},
          target \in UseTargets, alias \in {NoAlias, "c"}, w \in BOOLEAN :
            InsertImport(module, v, at, target, alias, w)

SpecUse == Init /\ [][NextUse]_vars

(* C32 *)

\* The component insert_import names the import by.
LastOf(call) ==
    IF call.alias # NoAlias THEN call.alias ELSE call.target[Len(call.target)]

\* The call has neither an alias nor a last component of the target.
NoLast(call) == call.alias = NoAlias /\ call.target = ROOT

\* The module and every module above it is public.
RECURSIVE PublicUp(_)
PublicUp(mod) ==
    /\ modules[mod].visibility = "Public"
    /\ modules[mod].parent # 0 => PublicUp(modules[mod].parent)

\* The entry is the import of the call.
ImportOf(entry, call) ==
    /\ entry.indexed.kind = "Import"
    /\ entry.indexed.wildcard = call.wildcard
    /\ entry.indexed.import.target = call.target
    /\ entry.indexed.import.module = call.module
    /\ entry.item_meta.item = call.at \o <<LastOf(call)>>
    /\ entry.item_meta.module = call.module
    /\ entry.item_meta.visibility = call.visibility

\* C32: insert_import indexes exactly one Import entry under the item at ++
\* [the alias if given, else the last component of the target] and enqueues
\* exactly one Build::ReExport entry with Used exactly when the item meta is
\* public; with no alias and no last component of the target it fails with
\* LastUseComponent and changes neither the indexed map nor the queue.
C32_InsertImport ==
    [][res'.op = "insert_import" =>
          /\ NoLast(res'.call) =>
                 /\ res'.kind = "LastUseComponent"
                 /\ indexed' = indexed /\ queue' = queue
          /\ ~NoLast(res'.call) =>
                 /\ res'.kind = "Ok"
                 /\ res'.item = res'.call.at \o <<LastOf(res'.call)>>
                 /\ DOMAIN indexed' = DOMAIN indexed \cup {res'.item}
                 /\ \A k \in DOMAIN indexed : k # res'.item => indexed'[k] = indexed[k]
                 /\ Len(indexed'[res'.item]) = Len(EntriesOf(indexed, res'.item)) + 1
                 /\ SubSeq(indexed'[res'.item], 1, Len(EntriesOf(indexed, res'.item)))
                        = EntriesOf(indexed, res'.item)
                 /\ ImportOf(indexed'[res'.item][Len(indexed'[res'.item])], res'.call)
                 /\ queue' =
                        IF res'.call.visibility = "Public" /\ PublicUp(res'.call.module)
                        THEN Append(queue,
                                    BuildEntry(indexed'[res'.item][Len(indexed'[res'.item])].item_meta,
                                               "ReExport", "Used"))
                        ELSE queue]_vars

\* An import with the alias c was declared public in the module a, which is
\* not public: it is indexed under a::c beside an earlier one and nothing
\* was enqueued for it.
C32_Witness ==
    /\ res.op = "insert_import" /\ res.kind = "Ok"
    /\ res.call.alias = "c" /\ res.call.module = 2 /\ res.call.visibility = "Public"
    /\ modules[2].visibility = "Inherited"
    /\ res.item = <<"a", "c">>
    /\ Len(indexed[<<"a", "c">>]) = 2
    /\ \A i \in 1..Len(queue) : queue[i].build # "ReExport"

(* ------------------------- the initial path ---------------------------- *)

\* The declarations indexed while a leading identifier is resolved.
MaxScoped == 2

\* Component::Crate of a name, told apart from the string component.
CrateComponent(name) ==
    CASE name = "std" -> "::std"
      [] name = "dbg" -> "::dbg"
      [] OTHER -> "::x"

\* Item::with_crate_item
with_crate_item(name, path) == <<CrateComponent(name)>> \o path

\* ItemBuf::with_crate
with_crate(name) == <<CrateComponent(name)>>

\* Prelude::with_default_prelude
Prelude ==
    [local \in {"assert_eq", "assert", "bool", "byte", "char", "dbg", "drop", "Err",
                "file", "float", "format", "int", "is_readable", "is_writable",
                "line", "None", "Object", "Ok", "Option", "panic", "print",
                "println", "Result", "Some", "String", "stringify", "unit", "Vec"} |->
        with_crate_item("std",
            CASE local = "assert_eq" -> <<"test", "assert_eq">>
              [] local = "assert" -> <<"test", "assert">>
              [] local = "dbg" -> <<"io", "dbg">>
              [] local = "drop" -> <<"mem", "drop">>
              [] local = "Err" -> <<"result", "Result", "Err">>
              [] local = "file" -> <<"macros", "builtin", "file">>
              [] local = "format" -> <<"fmt", "format">>
              [] local = "line" -> <<"macros", "builtin", "line">>
              [] local = "None" -> <<"option", "Option", "None">>
              [] local = "Object" -> <<"object", "Object">>
              [] local = "Ok" -> <<"result", "Result", "Ok">>
              [] local = "Option" -> <<"option", "Option">>
              [] local = "print" -> <<"io", "print">>
              [] local = "println" -> <<"io", "println">>
              [] local = "Result" -> <<"result", "Result">>
              [] local = "Some" -> <<"option", "Option", "Some">>
              [] local = "String" -> <<"string", "String">>
              [] local = "Vec" -> <<"vec", "Vec">>
              [] OTHER -> <<local>>)]

\* Prelude::get
HasPrelude(local) == local \in DOMAIN Prelude
prelude_get(local) == Prelude[local]

\* The crates of the Context: Context::contains_crate.
ContextCrates == {"std", "dbg"}
contains_crate(local) == local \in ContextCrates

\* The loop of convert_initial_path: push the identifier on the scope, test
\* the name, pop the identifier and one component of the scope; the walk
\* ends when the scope has left the module or has nothing to pop.
RECURSIVE convert_initial_walk(_, _, _, _, _)
convert_initial_walk(q, mi, base, local, tested) ==
    IF ~IsPrefix(mi, base)
    THEN [q |-> q, kind |-> "Ok", found |-> FALSE, item |-> ROOT, tested |-> tested]
    ELSE LET cand == base \o <<local>>
             seen == Append(tested, cand)
             popped(q1) ==
                 IF Len(base) = 0
                 THEN [q |-> q1, kind |-> "Ok", found |-> FALSE, item |-> ROOT,
                       tested |-> seen]
                 ELSE convert_initial_walk(q1, mi, SubSeq(base, 1, Len(base) - 1),
                                           local, seen)
             queried(r) ==
                 IF r.kind # "Ok"
                 THEN [q |-> r.q, kind |-> r.kind, found |-> FALSE, item |-> ROOT,
                       tested |-> seen]
                 ELSE IF r.some /\ r.meta.kind # "AssociatedFunction"
                 THEN [q |-> alloc_item(r.q, cand), kind |-> "Ok", found |-> TRUE,
                       item |-> cand, tested |-> seen]
                 ELSE popped(r.q)
         IN  IF cand \in names
             THEN queried(query_meta(alloc_item(q, cand), cand, "Used"))
             ELSE popped(q)

\* Query::convert_initial_path: the item a leading identifier stands for.
convert_initial_path(q, module, base, local) ==
    LET mi == module_item(module)
        ok(q1, item, tested) ==
            [q |-> alloc_item(q1, item), kind |-> "Ok", item |-> item,
             tested |-> tested]
        walked(w) ==
            IF w.kind # "Ok"
            THEN [q |-> w.q, kind |-> w.kind, item |-> ROOT, tested |-> w.tested]
            ELSE IF w.found
            THEN ok(w.q, w.item, w.tested)
            ELSE IF HasPrelude(local)
            THEN ok(w.q, prelude_get(local), w.tested)
            ELSE IF contains_crate(local)
            THEN ok(w.q, with_crate(local), w.tested)
            ELSE ok(w.q, mi \o <<local>>, w.tested)
    IN  IF q.debug_assertions /\ ~IsPrefix(mi, base)
        THEN [q |-> q, kind |-> "Panic", item |-> ROOT, tested |-> << >>]
        ELSE walked(convert_initial_walk(q, mi, base, local, << >>))

\* The indexer records a declaration `name` at the scope `at` of the module:
\* insert_new_item for its ItemMeta, then index().
IndexScoped(module, at, name, kind) ==
    /\ Idle
    /\ module \in ModIds
    /\ IsPrefix(module_item(module), at)
    /\ next_id <= MaxScoped
    /\ LET item == at \o <<name>>
           item_meta == [id |-> next_id, item |-> item, module |-> module,
                         visibility |-> "Public"]
           entry == [item_meta |-> item_meta,
                     indexed |-> [NoEntry.indexed EXCEPT !.kind = kind]]
       IN  /\ next_id' = next_id + 1
           /\ pool_items' = pool_alloc(pool_items, item)
           /\ items' = insert_new_item_with(items, item_meta)
           /\ names' = insert_name(names, item)
           /\ indexed' = index(indexed, entry)
           /\ res' = [op |-> "index", kind |-> "Ok", item |-> item]
    /\ UNCHANGED <<meta, queue, modules, imp, functions, stack>>

\* Query::convert_initial_path, called for the identifier `local` of a path
\* written at the item `base` of the module.
ConvertInitialPath(module, base, local, debug) ==
    /\ Idle
    /\ module \in ModIds
    /\ IsPrefix(module_item(module), base)
    /\ LET returned(r) ==
               /\ Commit(r.q)
               /\ res' = [op |-> "convert_initial_path", kind |-> r.kind,
                          item |-> r.item, module |-> module, base |-> base,
                          local |-> local, tested |-> r.tested]
       IN  returned(convert_initial_path(QState(debug), module, base, local))
    /\ UNCHANGED imp

\* The scopes of a module a path is written in: the module and a function g
\* of it; the modules are the root and a.
PathScopes(module) ==
    IF module = 1 THEN {ROOT, <<"g">>} ELSE {<<"a">>, <<"a", "g">>}

\* The identifiers resolved: x is declared in some scopes or in none, dbg
\* is in the prelude and a crate, std is a crate.
PathLocals == {"x", "dbg", "std"}

\* The module a; a function x in every scope, an instance function x in the
\* function g of either module and a function dbg in the root;
\* convert_initial_path from every scope.
NextScope ==
    \/ InsertRootMod
    \/ InsertMod(1, "a", "Public")
    \/ \E module \in {1, 2} :
            \E at \in PathScopes(module) : IndexScoped(module, at, "x", "Function")
    \/ \E module \in {1, 2} :
            IndexScoped(module, module_item(module) \o <<"g">>, "x", "InstanceFunction")
    \/ IndexScoped(1, ROOT, "dbg", "Function")
    \/ \E module \in {1, 2}, local \in PathLocals, debug \in BOOLEAN :
            \E base \in PathScopes(module) :
                ConvertInitialPath(module, base, local, debug)

SpecScope == Init /\ [][NextScope]_vars

(* C33 *)

\* The scope k components out of the base.
ScopeOut(base, k) == SubSeq(base, 1, Len(base) - k)

\* The scopes of the walk: from the base out to the item of the module.
ScopesOut(r) == 0..(Len(r.base) - Len(module_item(r.module)))

\* In the cache m, scope ++ local is a known name that has a Meta which is
\* not an associated function.
Wins(m, scope, local) ==
    /\ scope \o <<local>> \in names
    /\ HasMeta(m, scope \o <<local>>, HashEMPTY)
    /\ GetMeta(m, scope \o <<local>>, HashEMPTY).kind # "AssociatedFunction"

\* What the priority order gives for the call, in the cache m it left.
Resolved(m, r) ==
    IF \E k \in ScopesOut(r) : Wins(m, ScopeOut(r.base, k), r.local)
    THEN LET k == CHOOSE k \in ScopesOut(r) :
                      /\ Wins(m, ScopeOut(r.base, k), r.local)
                      /\ \A j \in ScopesOut(r) :
                             Wins(m, ScopeOut(r.base, j), r.local) => k <= j
         IN  ScopeOut(r.base, k) \o <<r.local>>
    ELSE IF r.local \in DOMAIN Prelude
    THEN Prelude[r.local]
    ELSE IF r.local \in ContextCrates
    THEN <<CrateComponent(r.local)>>
    ELSE module_item(r.module) \o <<r.local>>

\* The candidates tested start at base ++ local and lose one component of
\* the scope at a time, down to the item of the module at most.
Shrinks(r) ==
    /\ Len(r.tested) <= Len(r.base) - Len(module_item(r.module)) + 1
    /\ \A i \in 1..Len(r.tested) :
           r.tested[i] = ScopeOut(r.base, i - 1) \o <<r.local>>

\* C33: convert_initial_path gives the innermost scope, from the scope of
\* the requesting item out to the requesting module, in which scope ++ local
\* is a known name with a Meta that is not an associated function; else the
\* prelude entry of the identifier; else the crate of that name if the
\* context has it; else module ++ local.  The walk ends for every base: the
\* candidate shrinks by one component in every iteration.
C33_InitialPathPriority ==
    [][res'.op = "convert_initial_path" =>
          /\ res'.kind # "Panic"
          /\ res'.kind = "Ok" => res'.item = Resolved(meta', res')
          /\ Shrinks(res')]_vars

(* ------------------------------- paths --------------------------------- *)

\* The segments after the first of the paths converted.
MaxRest == 4

\* hir::PathSegmentKind; every identifier resolves to the same name.
SegmentKinds == {"Ident", "Super", "SelfType", "SelfValue", "Crate", "Generics"}
IdentName == "x"

\* The outcome of convert_path before import() is called.
PathError(q, kind) ==
    [q |-> q, kind |-> kind, item |-> ROOT, trailing |-> 0,
     parameters |-> <<FALSE, FALSE>>, local |-> FALSE]

\* The match on (path.global, path.first): the item the path starts from.
convert_first(q, qp, path) ==
    LET err(kind) == [q |-> q, kind |-> kind, item |-> ROOT, in_self_type |-> FALSE]
        ok(q1, item, in_self_type) ==
            [q |-> q1, kind |-> "Ok", item |-> item, in_self_type |-> in_self_type]
        initial(r) ==
            [q |-> r.q, kind |-> r.kind, item |-> r.item, in_self_type |-> FALSE]
        first == path.first
    IN  IF path.global
        THEN IF first = "Ident"
             THEN ok(alloc_item(q, with_crate(IdentName)), with_crate(IdentName), FALSE)
             ELSE err("UnsupportedGlobal")
        ELSE CASE first = "Ident" ->
                    initial(convert_initial_path(q, qp.module, qp.item, IdentName))
               [] first = "Super" ->
                    IF Len(module_item(qp.module)) = 0
                    THEN err("UnsupportedSuper")
                    ELSE ok(q, SubSeq(module_item(qp.module), 1,
                                      Len(module_item(qp.module)) - 1), FALSE)
               [] first = "SelfType" ->
                    IF ~qp.has_impl_item
                    THEN err("UnsupportedSelfType")
                    ELSE ok(q, qp.impl_item, TRUE)
               [] first = "SelfValue" -> ok(q, module_item(qp.module), FALSE)
               [] first = "Crate" -> ok(q, ROOT, FALSE)
               [] first = "Generics" -> err("UnsupportedGenerics")

\* A loop over the segments before the generics that lets super follow Self.
RECURSIVE convert_leading_super(_, _, _, _)
convert_leading_super(item, rest, i, in_self_type) ==
    LET done(kind, it, next, trailing, slots) ==
            [kind |-> kind, item |-> it, next |-> next, trailing |-> trailing,
             slots |-> slots, parameters |-> <<trailing = 1, FALSE>>]
    IN  IF i > Len(rest)
        THEN done("Ok", item, i, 0, 0)
        ELSE CASE rest[i] = "Ident" ->
                    convert_leading_super(Append(item, IdentName), rest, i + 1,
                                          in_self_type)
               [] rest[i] = "Super" ->
                    IF Len(item) = 0
                    THEN done("UnsupportedSuper", item, i, 0, 0)
                    ELSE convert_leading_super(SubSeq(item, 1, Len(item) - 1), rest,
                                               i + 1, in_self_type)
               [] rest[i] = "Generics" -> done("Ok", item, i + 1, 1, 1)
               [] OTHER -> done("ExpectedLeadingPathSegment", item, i, 0, 0)

\* The for loop of convert_path over path.rest: identifiers are pushed and
\* super pops until the first generics, which take the first parameter slot
\* and end the loop.
RECURSIVE convert_leading(_, _, _, _)
convert_leading(item, rest, i, in_self_type) ==
    LET done(kind, it, next, trailing, slots) ==
            [kind |-> kind, item |-> it, next |-> next, trailing |-> trailing,
             slots |-> slots, parameters |-> <<trailing = 1, FALSE>>]
    IN  IF i > Len(rest)
        THEN done("Ok", item, i, 0, 0)
        ELSE CASE rest[i] = "Ident" ->
                    convert_leading(Append(item, IdentName), rest, i + 1, in_self_type)
               [] rest[i] = "Super" ->
                    IF in_self_type
                    THEN done("UnsupportedSuperInSelfType", item, i, 0, 0)
                    ELSE IF Len(item) = 0
                    THEN done("UnsupportedSuper", item, i, 0, 0)
                    ELSE convert_leading(SubSeq(item, 1, Len(item) - 1), rest, i + 1,
                                         in_self_type)
               [] rest[i] = "Generics" -> done("Ok", item, i + 1, 1, 1)
               [] OTHER -> done("ExpectedLeadingPathSegment", item, i, 0, 0)

\* The while loop of convert_path over what is left of path.rest: every
\* segment is an identifier that takes the next of the two parameter slots,
\* and the generics that follow it fill the slot.
RECURSIVE convert_trailing(_, _, _, _, _, _)
convert_trailing(item, rest, i, trailing, slots, parameters) ==
    LET done(kind, it, t, p) ==
            [kind |-> kind, item |-> it, trailing |-> t, parameters |-> p]
    IN  IF i > Len(rest)
        THEN done("Ok", item, trailing, parameters)
        ELSE IF rest[i] # "Ident"
        THEN done("UnsupportedAfterGeneric", item, trailing, parameters)
        ELSE IF slots >= 2
        THEN done("UnsupportedGenerics", Append(item, IdentName), trailing + 1,
                  parameters)
        ELSE IF i + 1 <= Len(rest) /\ rest[i + 1] = "Generics"
        THEN convert_trailing(Append(item, IdentName), rest, i + 2, trailing + 1,
                              slots + 1, [parameters EXCEPT ![slots + 1] = TRUE])
        ELSE convert_trailing(Append(item, IdentName), rest, i + 1, trailing + 1,
                              slots + 1, parameters)

\* Query::convert_path up to its call of import(): the item of the path,
\* the number of trailing segments and the parameter slots filled.
convert_path(q, qp, path) ==
    LET trailed(q1, t) ==
            IF t.kind # "Ok"
            THEN PathError(q1, t.kind)
            ELSE [q |-> alloc_item(q1, t.item), kind |-> "Ok", item |-> t.item,
                  trailing |-> t.trailing, parameters |-> t.parameters,
                  local |-> ~path.global /\ path.first = "Ident" /\ path.rest = << >>]
        led(q1, l) ==
            IF l.kind # "Ok"
            THEN PathError(q1, l.kind)
            ELSE trailed(q1, convert_trailing(l.item, path.rest, l.next, l.trailing,
                                              l.slots, l.parameters))
        started(f) ==
            IF f.kind # "Ok"
            THEN PathError(f.q, f.kind)
            ELSE led(f.q, convert_leading(f.item, path.rest, 1, f.in_self_type))
    IN  started(convert_first(q, qp, path))

\* Query::convert_path for a path registered with the QueryPath `qp`: an
\* error returns at once, otherwise import() is called for the item, and
\* the Named of the path has the item import() gives.
ConvertPath(qp, path, debug) ==
    /\ Idle
    /\ res.op \in {"insert_root_mod", "insert_mod"}
    /\ qp.module \in ModIds
    /\ IsPrefix(module_item(qp.module), qp.item)
    /\ LET returned(r) ==
               /\ Commit(r.q)
               /\ res' = [op |-> "convert_path", kind |-> r.kind, qp |-> qp,
                          path |-> path, item |-> r.item, trailing |-> r.trailing,
                          parameters |-> r.parameters, local |-> r.local]
               /\ imp' = IF r.kind # "Ok"
                         THEN imp
                         ELSE [IdleImport EXCEPT !.active = TRUE, !.from = qp.module,
                                                 !.start = r.item, !.used = "Used",
                                                 !.module = qp.module, !.item = r.item]
       IN  returned(convert_path(QState(debug), qp, path))

\* The paths converted: global or not, any first segment, and up to MaxRest
\* segments that are identifiers, super, generics or self.
PathRests == SeqsUpTo({"Ident", "Super", "Generics", "SelfValue"}, MaxRest)
Paths == [global : BOOLEAN, first : SegmentKinds, rest : PathRests]

\* The QueryPaths: of the root or of the module a, inside an impl or not.
QueryPaths ==
    {[module |-> 1, item |-> ROOT, has_impl_item |-> FALSE, impl_item |-> ROOT],
     [module |-> 1, item |-> <<"g">>, has_impl_item |-> TRUE, impl_item |-> <<"T">>],
     [module |-> 2, item |-> <<"a">>, has_impl_item |-> FALSE, impl_item |-> ROOT],
     [module |-> 2, item |-> <<"a">>, has_impl_item |-> TRUE, impl_item |-> <<"a", "T">>]}

\* One path is converted in a unit with the root module, or with the module
\* a as well; the import() it calls runs to its end.
NextPath ==
    \/ InsertRootMod
    \/ InsertMod(1, "a", "Public")
    \/ /\ res.op \in {"insert_root_mod", "insert_mod"}
       /\ \E qp \in QueryPaths, path \in Paths, debug \in BOOLEAN :
              ConvertPath(qp, path, debug)
    \/ \E debug \in BOOLEAN : ImportIter(debug)

SpecPath == Init /\ [][NextPath]_vars

(* C34 *)

\* The first segment of the path is one convert_path starts from.
FirstOk(p, qp) ==
    IF p.global
    THEN p.first = "Ident"
    ELSE /\ p.first # "Generics"
         /\ p.first = "SelfType" => qp.has_impl_item
         /\ p.first = "Super" => module_item(qp.module) # ROOT

\* The path starts with Self.
InSelfType(p) == ~p.global /\ p.first = "SelfType"

\* The number of components of the item the first segment stands for; no
\* name is declared, so an identifier stands for module ++ identifier.
StartLen(p, qp) ==
    IF p.global THEN 1
    ELSE CASE p.first = "Ident" -> Len(module_item(qp.module)) + 1
           [] p.first = "Super" -> Len(module_item(qp.module)) - 1
           [] p.first = "SelfType" -> Len(qp.impl_item)
           [] p.first = "SelfValue" -> Len(module_item(qp.module))
           [] OTHER -> 0

\* The number of components left after the first n segments of rest, all
\* identifiers and super; -1 when one of them is neither or a super went
\* beyond the root.
RECURSIVE DepthAfter(_, _, _)
DepthAfter(start, rest, n) ==
    IF n = 0
    THEN start
    ELSE LET d == DepthAfter(start, rest, n - 1)
         IN  IF d < 0 \/ rest[n] \notin {"Ident", "Super"}
             THEN -1
             ELSE IF rest[n] = "Ident"
             THEN d + 1
             ELSE d - 1

\* Nothing is wrong with the path up to the segment n of rest.
LeadingOk(p, qp, n) ==
    /\ FirstOk(p, qp)
    /\ DepthAfter(StartLen(p, qp), p.rest, n) >= 0
    /\ InSelfType(p) => \A j \in 1..n : p.rest[j] # "Super"

\* The segment g of rest is the first generics of the path.
FirstGenerics(p, qp, g) ==
    g \in 1..Len(p.rest) /\ p.rest[g] = "Generics" /\ LeadingOk(p, qp, g - 1)

\* The segment i of rest exists and is of the kind.
Is(p, i, kind) == i <= Len(p.rest) /\ p.rest[i] = kind
IsNot(p, i, kind) == i <= Len(p.rest) /\ p.rest[i] # kind

\* The number of generics segments of the path.
GenericsOf(p) ==
    Cardinality({i \in 1..Len(p.rest) : p.rest[i] = "Generics"})
        + (IF p.first = "Generics" THEN 1 ELSE 0)

\* C34: convert_path rejects a malformed path, by its first malformation,
\* with the error of that malformation and without calling import(): a
\* global path whose first segment is no identifier gives UnsupportedGlobal;
\* generics in first position give UnsupportedGenerics; Self outside an impl
\* gives UnsupportedSelfType; super after a leading Self gives
\* UnsupportedSuperInSelfType; super beyond the root gives the
\* unsupported-super error; a segment that is no identifier after the first
\* generics gives UnsupportedAfterGeneric; a second identifier after the
\* first generics gives UnsupportedGenerics, with generics of its own or
\* without, and an accepted path has at most two generics.
C34_MalformedPaths ==
    [][res'.op = "convert_path" =>
          LET p == res'.path
              qp == res'.qp
              kind == res'.kind
          IN  /\ p.global /\ p.first # "Ident" => kind = "UnsupportedGlobal"
              /\ ~p.global /\ p.first = "Generics" => kind = "UnsupportedGenerics"
              /\ InSelfType(p) /\ ~qp.has_impl_item => kind = "UnsupportedSelfType"
              /\ (/\ InSelfType(p) /\ FirstOk(p, qp)
                  /\ \E i \in 1..Len(p.rest) :
                         /\ p.rest[i] = "Super"
                         /\ \A j \in 1..(i - 1) : p.rest[j] = "Ident")
                     => kind = "UnsupportedSuperInSelfType"
              /\ (\/ ~p.global /\ p.first = "Super" /\ module_item(qp.module) = ROOT
                  \/ /\ FirstOk(p, qp) /\ ~InSelfType(p)
                     /\ \E i \in 1..Len(p.rest) :
                            /\ p.rest[i] = "Super"
                            /\ DepthAfter(StartLen(p, qp), p.rest, i - 1) = 0)
                     => kind = "UnsupportedSuper"
              /\ \A g \in 1..Len(p.rest) :
                     FirstGenerics(p, qp, g) =>
                         /\ (\/ IsNot(p, g + 1, "Ident")
                             \/ /\ Is(p, g + 1, "Ident")
                                /\ IsNot(p, g + 2, "Ident") /\ IsNot(p, g + 2, "Generics")
                             \/ /\ Is(p, g + 1, "Ident") /\ Is(p, g + 2, "Generics")
                                /\ IsNot(p, g + 3, "Ident"))
                                => kind = "UnsupportedAfterGeneric"
                         /\ (/\ Is(p, g + 1, "Ident")
                             /\ \/ Is(p, g + 2, "Ident")
                                \/ Is(p, g + 2, "Generics") /\ Is(p, g + 3, "Ident"))
                                => kind = "UnsupportedGenerics"
              /\ kind # "Ok" => imp' = imp /\ ~imp'.active
              /\ kind = "Ok" => imp'.active /\ GenericsOf(p) <= 2]_vars

\* The path x::<T>::x::x was rejected with UnsupportedGenerics: its second
\* identifier after the generics found no parameter slot left.
C34_Witness ==
    /\ res.op = "convert_path" /\ res.kind = "UnsupportedGenerics"
    /\ ~res.path.global /\ res.path.first = "Ident"
    /\ res.path.rest = <<"Generics", "Ident", "Ident">>
    /\ ~imp.active

====
